---- MODULE Spec2Model ----
(***************************************************************************)
(* A model of the track-matching and catalog-mapping engine of             *)
(* playlist-from-web: the SpotifyClient of src/src/app/spotify_client.py   *)
(* (normalizer, matcher, search cache, retried catalog calls, chunked      *)
(* add_tracks) and the batch mapper of src/src/app/pipeline.py.            *)
(*                                                                         *)
(* Text is modelled as sequences of characters (one-character strings, and *)
(* a few named tokens for non-ASCII characters).  Floating point numbers   *)
(* are modelled bit-exactly as IEEE-754 doubles (53-bit mantissas, round   *)
(* to nearest even), because the matcher compares weighted scores.         *)
(***************************************************************************)
EXTENDS Integers, Sequences, FiniteSets, TLC

(***************************************************************************)
(* Text                                                                    *)
(***************************************************************************)

\* The characters of a string literal, as a sequence of one-character strings.
Chars(s) == [i \in 1..Len(s) |-> SubSeq(s, i, i)]

\* Non-ASCII characters of the model's alphabet, as named tokens.
E_ACUTE == "e_acute"
COMBINING_ACUTE == "combining_acute"
O_SLASH == "o_slash"

UpperAlphabet == Chars("ABCDEFGHIJKLMNOPQRSTUVWXYZ")
LowerAlphabet == Chars("abcdefghijklmnopqrstuvwxyz")
Digits == Chars("0123456789")

\* [a-z0-9] of the regular expression in _normalize.
AlnumLower == {LowerAlphabet[i] : i \in 1..26} \cup {Digits[i] : i \in 1..10}

\* What str.strip() strips and the regular expression \s matches.
Whitespace == {" ", "\t"}

\* Concatenation of a sequence of sequences.
RECURSIVE Flatten(_)
Flatten(ss) == IF ss = <<>> THEN <<>> ELSE Head(ss) \o Flatten(Tail(ss))

\* unicodedata.normalize("NFKD", c) of one character.
Decompose(c) == IF c = E_ACUTE THEN <<"e", COMBINING_ACUTE>> ELSE <<c>>

\* unicodedata.combining(c) != 0
IsCombining(c) == c = COMBINING_ACUTE

\* str.lower() of one character.
LowerChar(c) ==
    IF \E i \in 1..26 : UpperAlphabet[i] = c
    THEN LowerAlphabet[CHOOSE i \in 1..26 : UpperAlphabet[i] = c]
    ELSE c

\* str.lower()
Lower(s) == [i \in 1..Len(s) |-> LowerChar(s[i])]

\* str.strip(): leading and trailing whitespace removed.
RECURSIVE LStrip(_)
LStrip(s) == IF s # <<>> /\ Head(s) \in Whitespace THEN LStrip(Tail(s)) ELSE s

RECURSIVE RStrip(_)
RStrip(s) ==
    IF s # <<>> /\ s[Len(s)] \in Whitespace
    THEN RStrip(SubSeq(s, 1, Len(s) - 1))
    ELSE s

Strip(s) == RStrip(LStrip(s))

\* re.sub(<class>+, " ", s): every maximal run of characters of the class
\* becomes one space.  The class is the set chars, or its complement when
\* negated.
RECURSIVE SubRuns(_, _, _, _)
SubRuns(s, chars, negated, inRun) ==
    IF s = <<>> THEN <<>>
    ELSE IF (Head(s) \in chars) # negated
         THEN (IF inRun THEN <<>> ELSE <<" ">>) \o SubRuns(Tail(s), chars, negated, TRUE)
         ELSE <<Head(s)>> \o SubRuns(Tail(s), chars, negated, FALSE)

\* Mutant of normalize: the result is not stripped at the end.
normalize_unstripped(text) ==
    LET nfkd == Flatten([i \in 1..Len(text) |-> Decompose(text[i])])
        nomarks == SelectSeq(nfkd, LAMBDA c : ~IsCombining(c))
        lowered == Strip(Lower(nomarks))
        alnum == SubRuns(lowered, AlnumLower, TRUE, FALSE)
    IN  SubRuns(alnum, Whitespace, FALSE, FALSE)

\* SpotifyClient._normalize
normalize(text) ==
    LET nfkd == Flatten([i \in 1..Len(text) |-> Decompose(text[i])])
        nomarks == SelectSeq(nfkd, LAMBDA c : ~IsCombining(c))
        lowered == Strip(Lower(nomarks))
        alnum == SubRuns(lowered, AlnumLower, TRUE, FALSE)
    IN  Strip(SubRuns(alnum, Whitespace, FALSE, FALSE))

(***************************************************************************)
(* difflib.SequenceMatcher(None, a, b).ratio(), with indices as in Python  *)
(* (0-based, half-open ranges).  No junk: isjunk is None and the autojunk  *)
(* heuristic only applies to sequences of 200 or more elements.            *)
(***************************************************************************)

\* The length of the common run of a[i:ahi] and b[j:bhi].
RECURSIVE CommonRun(_, _, _, _, _, _)
CommonRun(a, b, i, j, ahi, bhi) ==
    IF i < ahi /\ j < bhi /\ a[i + 1] = b[j + 1]
    THEN 1 + CommonRun(a, b, i + 1, j + 1, ahi, bhi)
    ELSE 0

\* SequenceMatcher.find_longest_match(alo, ahi, blo, bhi): the longest
\* matching block <<i, j, k>>; of those, the one starting earliest in a, and
\* of those, the one starting earliest in b; <<alo, blo, 0>> when none.
find_longest_match(a, b, alo, ahi, blo, bhi) ==
    LET starts == (alo..(ahi - 1)) \X (blo..(bhi - 1))
        size(p) == CommonRun(a, b, p[1], p[2], ahi, bhi)
        best == IF starts = {} THEN 0
                ELSE CHOOSE k \in 0..(ahi - alo) :
                        /\ \E p \in starts : size(p) = k
                        /\ \A p \in starts : size(p) <= k
    IN  IF best = 0 THEN <<alo, blo, 0>>
        ELSE LET longest == {p \in starts : size(p) = best}
                 i == CHOOSE i \in alo..(ahi - 1) :
                         /\ \E p \in longest : p[1] = i
                         /\ \A p \in longest : p[1] >= i
                 j == CHOOSE j \in blo..(bhi - 1) :
                         /\ <<i, j>> \in longest
                         /\ \A p \in longest : p[1] = i => p[2] >= j
             IN  <<i, j, best>>

\* The sum of the sizes of SequenceMatcher.get_matching_blocks(): the longest
\* block of the range, then recursively the pieces to its left and right.
RECURSIVE matching_size(_, _, _, _, _, _)
matching_size(a, b, alo, ahi, blo, bhi) ==
    LET m == find_longest_match(a, b, alo, ahi, blo, bhi)
        i == m[1]
        j == m[2]
        k == m[3]
    IN  IF k = 0 THEN 0
        ELSE k
             + (IF alo < i /\ blo < j
                THEN matching_size(a, b, alo, i, blo, j) ELSE 0)
             + (IF i + k < ahi /\ j + k < bhi
                THEN matching_size(a, b, i + k, ahi, j + k, bhi) ELSE 0)

\* The operands of SequenceMatcher.ratio(): <<matches, length>>, the ratio
\* being 2.0 * matches / length, and 1.0 when length = 0.
ratio_parts(a, b) ==
    <<matching_size(a, b, 0, Len(a), 0, Len(b)), Len(a) + Len(b)>>

(***************************************************************************)
(* IEEE-754 binary64 arithmetic on non-negative numbers, as Python's float *)
(* computes it (round to nearest, ties to even).  A number is 0, written   *)
(* [e |-> 0, m |-> <<>>], or 1.f * 2^e, written [e |-> e, m |-> bits] with *)
(* bits the 53 bits of the mantissa, the leading 1 first.  The numbers     *)
(* of the model stay far from the subnormal and the overflow range.        *)
(***************************************************************************)
MantissaBits == 53

FZero == [e |-> 0, m |-> <<>>]

Zeros(n) == [i \in 1..n |-> 0]

\* Long bit sequences are added and multiplied in limbs of LimbBits bits, so
\* that every intermediate integer stays below 2^31.
LimbBits == 14

RECURSIVE Pow2(_)
Pow2(k) == IF k = 0 THEN 1 ELSE 2 * Pow2(k - 1)

LimbBase == Pow2(LimbBits)

\* The number of limbs that hold n bits.
LimbCount(n) == (n + LimbBits - 1) \div LimbBits

\* The value of a bit sequence of at most LimbBits bits, first bit highest.
RECURSIVE BitsValue(_)
BitsValue(bits) ==
    IF bits = <<>> THEN 0
    ELSE 2 * BitsValue(SubSeq(bits, 1, Len(bits) - 1)) + bits[Len(bits)]

\* A bit sequence (first bit highest) as limbs, lowest limb first.
ToLimbs(bits) ==
    LET n == LimbCount(Len(bits))
        padded == Zeros(n * LimbBits - Len(bits)) \o bits
    IN  [k \in 1..n |->
            BitsValue(SubSeq(padded, (n - k) * LimbBits + 1, (n - k + 1) * LimbBits))]

\* The lowest n bits of the number held by limbs, first bit highest.
FromLimbs(limbs, n) ==
    [i \in 1..n |->
        LET pos == n - i
        IN  (limbs[pos \div LimbBits + 1] \div Pow2(pos % LimbBits)) % 2]

\* x + y + carry of two limb sequences of one length, one limb longer.
RECURSIVE AddLimbs(_, _, _)
AddLimbs(x, y, carry) ==
    IF x = <<>> THEN <<carry>>
    ELSE LET t == Head(x) + Head(y) + carry
         IN  <<t % LimbBase>> \o AddLimbs(Tail(x), Tail(y), t \div LimbBase)

\* x + y + carry of two bit sequences of one length, as <<carry out, bits>>.
AddBits(x, y, carry) ==
    LET n == Len(x)
        sum == FromLimbs(AddLimbs(ToLimbs(x), ToLimbs(y), carry), LimbCount(n) * LimbBits + 1)
        all == SubSeq(sum, Len(sum) - n, Len(sum))
    IN  <<Head(all), Tail(all)>>

\* The sum of the limb products x[i] * y[j] with i + j = c + 2, from i on.
RECURSIVE ColumnSum(_, _, _, _)
ColumnSum(x, y, c, i) ==
    IF i > Len(x) THEN 0
    ELSE (IF c + 2 - i \in 1..Len(y) THEN x[i] * y[c + 2 - i] ELSE 0)
         + ColumnSum(x, y, c, i + 1)

\* The limbs of x * y from column c on (columns count from 0).
RECURSIVE MulLimbs(_, _, _, _)
MulLimbs(x, y, c, carry) ==
    IF c = Len(x) + Len(y) THEN <<>>
    ELSE LET t == ColumnSum(x, y, c, 1) + carry
         IN  <<t % LimbBase>> \o MulLimbs(x, y, c + 1, t \div LimbBase)

\* The double nearest to bits * 2^(e - Len(bits) + 1) (+ a nonzero rest below
\* the last bit when sticky), bits starting with a 1: round to nearest even.
RoundNearestEven(bits, e, sticky) ==
    IF Len(bits) <= MantissaBits
    THEN [e |-> e, m |-> bits \o Zeros(MantissaBits - Len(bits))]
    ELSE LET keep == SubSeq(bits, 1, MantissaBits)
             guard == bits[MantissaBits + 1]
             rest == sticky \/ \E i \in (MantissaBits + 2)..Len(bits) : bits[i] = 1
             up == guard = 1 /\ (rest \/ keep[MantissaBits] = 1)
             inc == AddBits(keep, Zeros(MantissaBits), 1)
         IN  IF ~up THEN [e |-> e, m |-> keep]
             ELSE IF inc[1] = 1
                  THEN [e |-> e + 1, m |-> <<1>> \o Zeros(MantissaBits - 1)]
                  ELSE [e |-> e, m |-> inc[2]]

\* n / d scaled by a power of two into [1, 2): <<n', d', e>> with
\* n / d = (n' / d') * 2^e and d' <= n' < 2 d'.
RECURSIVE Scale(_, _, _)
Scale(n, d, e) ==
    IF n >= 2 * d THEN Scale(n, 2 * d, e + 1)
    ELSE IF n < d THEN Scale(2 * n, d, e - 1)
    ELSE <<n, d, e>>

\* 2^k mod d, by repeated squaring.
RECURSIVE Pow2Mod(_, _)
Pow2Mod(k, d) ==
    IF k = 0 THEN 1 % d
    ELSE IF k % 2 = 0
         THEN LET h == Pow2Mod(k \div 2, d) IN (h * h) % d
         ELSE (2 * Pow2Mod(k - 1, d)) % d

\* The remainder left after i quotient bits of rem / d (rem < d).
Remainder(rem, d, i) == (rem * Pow2Mod(i, d)) % d

\* The first `count` quotient bits of rem / d (rem < d): long division.
QuotientBits(rem, d, count) ==
    [i \in 1..count |-> IF 2 * Remainder(rem, d, i - 1) >= d THEN 1 ELSE 0]

\* float(n) / float(d) for integers n >= 0, d > 0.
FDiv(n, d) ==
    IF n = 0 THEN FZero
    ELSE LET s == Scale(n, d, 0)
             rem == s[1] - s[2]
         IN  RoundNearestEven(<<1>> \o QuotientBits(rem, s[2], MantissaBits),
                              s[3], Remainder(rem, s[2], MantissaBits) # 0)

\* x + y of doubles.
FAdd(x, y) ==
    IF x = FZero THEN y
    ELSE IF y = FZero THEN x
    ELSE LET hi == IF x.e >= y.e THEN x ELSE y
             lo == IF x.e >= y.e THEN y ELSE x
             d == hi.e - lo.e
             sum == AddBits(hi.m \o Zeros(d), Zeros(d) \o lo.m, 0)
         IN  IF d > MantissaBits THEN hi
             ELSE IF sum[1] = 1
             THEN RoundNearestEven(<<1>> \o sum[2], hi.e + 1, FALSE)
             ELSE RoundNearestEven(sum[2], hi.e, FALSE)

\* The product of two mantissas, 2 * MantissaBits bits.
MulBits(x, y) ==
    FromLimbs(MulLimbs(ToLimbs(x), ToLimbs(y), 0, 0), 2 * MantissaBits)

\* x * y of doubles.
FMul(x, y) ==
    IF x = FZero \/ y = FZero THEN FZero
    ELSE LET p == MulBits(x.m, y.m)
         IN  IF p[1] = 1
             THEN RoundNearestEven(p, x.e + y.e + 1, FALSE)
             ELSE RoundNearestEven(Tail(p), x.e + y.e, FALSE)

\* x < y of doubles.
FLess(x, y) ==
    IF y = FZero THEN FALSE
    ELSE IF x = FZero THEN TRUE
    ELSE IF x.e # y.e THEN x.e < y.e
    ELSE \E i \in 1..MantissaBits :
            /\ x.m[i] < y.m[i]
            /\ \A j \in 1..(i - 1) : x.m[j] = y.m[j]

(***************************************************************************)
(* The similarity score and SpotifyClient._best_match                      *)
(***************************************************************************)

\* The longest pair of normalized strings the ratio is memoized for: the sum
\* of the lengths of a target and a candidate string.
MaxRatioLen == 12

\* The operands <<matches, length>> SequenceMatcher.ratio() can have.
RatioArgs == {p \in (0..MaxRatioLen) \X (0..MaxRatioLen) : 2 * p[1] <= p[2]}

\* SequenceMatcher.ratio() as a double: 2.0 * matches / length, 1.0 if length
\* is 0 (difflib._calculate_ratio).
calculate_ratio(p) == IF p[2] = 0 THEN FDiv(1, 1) ELSE FDiv(2 * p[1], p[2])

\* The row of the memo for the operands p with ratio r:
\* <<operands, ratio, 0.6 * ratio, 0.4 * ratio>>.
memo_row(p, r) == <<p, r, FMul(FDiv(6, 10), r), FMul(FDiv(4, 10), r)>>

\* The doubles ratio, 0.6 * ratio and 0.4 * ratio of every operand, computed
\* once.
RatioMemo == {memo_row(p, calculate_ratio(p)) : p \in RatioArgs}

Memo(p) == CHOOSE row \in RatioMemo : row[1] = p

\* The threshold 0.5 of _best_match.
Threshold == FDiv(5, 10)

\* max(ratios, default=0.0) over the memo rows of the candidate's artists:
\* a row of the largest ratio.
best_artist_row(rows) ==
    rows[CHOOSE i \in DOMAIN rows : \A j \in DOMAIN rows : ~FLess(rows[i][2], rows[j][2])]

\* 0.6 * score_title + 0.4 * score_artist as a double, from the memo rows of
\* the title (the first row) and of the artists.
score_from_rows(rows) == FAdd(rows[1][3], best_artist_row(Tail(rows))[4])

\* score of one candidate: the title ratio and the largest artist ratio,
\* 0.0 (the operands <<0, 1>>) when the candidate has no artist.
score_of(target_artist, target_title, cand_title, cand_artists) ==
    score_from_rows(
        [i \in 1..(IF cand_artists = <<>> THEN 2 ELSE Len(cand_artists) + 1) |->
            Memo(IF i = 1 THEN ratio_parts(target_title, cand_title)
                 ELSE IF cand_artists = <<>> THEN <<0, 1>>
                 ELSE ratio_parts(target_artist, cand_artists[i - 1]))])

\* The normalized artist names of a catalog item.
cand_artists_of(item) == [i \in DOMAIN item.artists |-> normalize(item.artists[i])]

\* Mutant of is_exact: only the first artist of the item is compared.
is_exact_first_artist(item, target_artist, target_title) ==
    /\ target_title = normalize(item.name)
    /\ item.artists # <<>>
    /\ normalize(item.artists[1]) = target_artist

\* The exact test of _best_match on one item.
is_exact(item, target_artist, target_title) ==
    /\ target_title = normalize(item.name)
    /\ \E i \in DOMAIN item.artists : cand_artists_of(item)[i] = target_artist

\* Optional[Dict]: None is the empty sequence, a value a sequence of one item.
None == <<>>
Some(v) == <<v>>

\* Mutant of accept: a best score equal to the threshold is rejected.
accept_strict(best, best_score) == IF ~FLess(Threshold, best_score) THEN 0 ELSE best

\* The end of _best_match: None (0) when best_score < 0.5, else best.
accept(best, best_score) == IF FLess(best_score, Threshold) THEN 0 ELSE best

\* The loop of _best_match from item k on, with the running best (an index
\* into items, 0 for None) and best_score: the index of the item returned,
\* 0 when None is returned.
RECURSIVE best_match_loop(_, _, _, _, _, _)

\* Mutant of best_match_next: a candidate whose score equals the best so far
\* replaces it.
best_match_next_last_tie(items, target_artist, target_title, k, best, best_score, score) ==
    IF ~FLess(score, best_score)
    THEN best_match_loop(items, target_artist, target_title, k + 1, k, score)
    ELSE best_match_loop(items, target_artist, target_title, k + 1, best, best_score)

\* The end of the loop body for item k, whose score is score.
best_match_next(items, target_artist, target_title, k, best, best_score, score) ==
    IF FLess(best_score, score)
    THEN best_match_loop(items, target_artist, target_title, k + 1, k, score)
    ELSE best_match_loop(items, target_artist, target_title, k + 1, best, best_score)

\* Mutant of best_match_loop: an exact candidate gives way to a candidate
\* before it that the scoring has taken for the best so far.
best_match_loop_keep_earlier(items, target_artist, target_title, k, best, best_score) ==
    IF k > Len(items) THEN accept(best, best_score)
    ELSE IF is_exact(items[k], target_artist, target_title)
    THEN (IF best # 0 THEN best ELSE k)
    ELSE best_match_next(items, target_artist, target_title, k, best, best_score,
                         score_of(target_artist, target_title,
                                  normalize(items[k].name), cand_artists_of(items[k])))

best_match_loop(items, target_artist, target_title, k, best, best_score) ==
    IF k > Len(items) THEN accept(best, best_score)
    ELSE IF is_exact(items[k], target_artist, target_title) THEN k
    ELSE best_match_next(items, target_artist, target_title, k, best, best_score,
                         score_of(target_artist, target_title,
                                  normalize(items[k].name), cand_artists_of(items[k])))

\* The index in items of the item _best_match returns, 0 for None.
best_match_index(items, target_artist, target_title) ==
    IF items = <<>> THEN 0
    ELSE best_match_loop(items, target_artist, target_title, 1, 0, FZero)

\* The item at index k, None for 0.
item_at(items, k) == IF k = 0 THEN None ELSE Some(items[k])

\* SpotifyClient._best_match
best_match(items, target_artist, target_title) ==
    item_at(items, best_match_index(items, target_artist, target_title))

(***************************************************************************)
(* The catalog's items and the tracks of the model                         *)
(***************************************************************************)

\* The (artist, title) pairs the model searches for, as typed on a page.
TrackAbCd == <<Chars("Ab"), Chars("cd ")>>
TrackAbCdUpper == <<Chars(" AB"), Chars("CD")>>
TrackAbCDash == <<Chars("ab"), Chars("c-d")>>
TrackAccent == <<<<E_ACUTE>>, Chars("?")>>
TrackPunct == <<Chars("?"), Chars("!")>>
TrackPipeLeft == <<Chars("a|b"), Chars("c")>>
TrackPipeRight == <<Chars("a"), Chars("b|c")>>

\* A catalog item: the fields of a search result the program reads.
Item(uri, name, artists) ==
    [uri |-> uri, url |-> "https://open.spotify.com/track/" \o uri,
     name |-> Chars(name), artists |-> [i \in DOMAIN artists |-> Chars(artists[i])]]

CatalogItems ==
    { Item("exact", "CD", <<"AB">>),
      Item("second_artist", "cd", <<"xy", "ab">>),
      Item("half", "cx", <<"ax">>),
      Item("half_again", "cx", <<"ax">>),
      Item("no_artist", "cx", <<>>),
      Item("spaced", "c d", <<"a b">>),
      Item("unrelated", "xy", <<"zz">>),
      Item("punct", "-", <<"!">>),
      Item("swapped", "dc", <<"ab">>),
      Item("longer", "cdx", <<"b">>),
      [uri |-> "accent", url |-> "https://open.spotify.com/track/accent",
       name |-> Chars("x"), artists |-> <<<<"E", COMBINING_ACUTE>>, <<O_SLASH>>>>] }

\* All sequences of at most n elements of set.
RECURSIVE SeqsUpTo(_, _)
SeqsUpTo(set, n) ==
    IF n = 0 THEN {<<>>}
    ELSE LET shorter == SeqsUpTo(set, n - 1)
         IN  shorter \cup {Append(q, e) : q \in {r \in shorter : Len(r) = n - 1}, e \in set}

(***************************************************************************)
(* The state of the model                                                  *)
(***************************************************************************)

VARIABLES
    \* _best_match applied as a pure function
    m_target,       \* the (artist, title) pair searched for, not yet normalized
    m_items,        \* the candidate list
    m_applied,      \* whether _best_match has run
    m_result,       \* the index in m_items of the item it returned, 0 for None
    \* SpotifyClient
    search_cache,   \* self._search_cache: cache key -> Optional item
    access_token,   \* self._access_token: None or the token
    \* the retried call in progress (_search, create_playlist, _add_tracks_chunk)
    r_fn,           \* the decorated function invoked
    r_attempt,      \* how many times its body has been executed
    r_last,         \* the outcome of the last execution of the body
    r_state,        \* "idle", "running", "returned" or "raised"
    r_value,        \* the value returned
    r_error,        \* the exception raised
    \* search_track
    st_state,       \* "idle", "running", "returned" or "raised"
    st_artist,      \* the artist argument
    st_title,       \* the title argument
    st_queries,     \* the queries passed to _search by this call, in order
    st_responses,   \* the item lists _search returned to this call, in order
    st_cached,      \* whether the call was answered from the cache
    st_result,      \* the Optional item returned
    st_error,       \* the exception raised
    \* add_tracks
    at_state,       \* "idle", "called", "running" or "returned"
    at_uris,        \* the uris argument
    at_i,           \* the loop variable i
    at_added,       \* added
    at_failed,      \* failed
    at_chunks,      \* the chunks passed to _add_tracks_chunk, in order
    at_outcomes,    \* for each of them, whether _add_tracks_chunk returned
    \* history of the client
    calls_made,     \* the number of calls made on the client
    sequences,      \* cache key -> number of search sequences that returned
    stored_by,      \* cache key -> the arguments and result of the call that stored its entry
    \* _map_tracks_to_spotify and run_import
    ri_state,       \* where run_import is
    ri_write,       \* write_playlists
    parsed,         \* parsed.blocks
    keep_unmatched, \* the keep_unmatched argument of the mapper
    mp_block,       \* the position of the block loop (1-based)
    mp_track,       \* the position of the track loop (1-based)
    mapped_blocks,  \* mapped_blocks
    mapped_tracks,  \* mapped_tracks of the current block
    misses,         \* misses
    mp_calls,       \* the (artist, title) pairs passed to search_track, in order
    mp_results,     \* what search_track returned for each of them
    mp_error,       \* the exception the mapper raised, NoOutcome before
    mp_return,      \* the (mapped_blocks, misses) the mapper returned, None before
    creation,       \* the result of the playlist creation step
    artifact,       \* the Spotify artifact written, None before
    printed,        \* the miss count printed, None before
    \* _get_access_token called by threads
    clock,          \* time.time(), in seconds
    expires_at,     \* self._expires_at
    token_lock,     \* the thread that holds self._token_lock, 0 when it is free
    callers,        \* thread -> its call of _get_access_token
    refreshes,      \* the refresh requests sent: who sent each and when
    token_calls,    \* the number of calls of _get_access_token made
    \* search_track called by threads
    workers,        \* thread -> its call of search_track
    \* _normalize applied as a pure function
    nz_text,        \* the string it is first applied to
    nz_outputs,     \* what it returned, applied to nz_text and then to its own output
    cr_state,       \* where run_crawl is
    cr_index,       \* the links _extract_links_from_index finds on the index page
    max_links,      \* the max_links argument of run_crawl
    dev_mode,       \* the dev_mode argument of run_crawl
    links,          \* links
    cr_rest,        \* the links the loop has not reached yet
    processed,      \* processed
    cr_outcomes,    \* what run_dev or run_import did for each link so far
    crawl_result,   \* the CrawlResult written and returned
    \* _serialize_parsed and the reading side of run_replay
    rp_state,       \* where the round trip is
    rp_parsed,      \* the blocks of the ParsedPage that is serialized
    rp_data,        \* the JSON document of the parsed artifact
    rp_page,        \* the blocks of the ParsedPage run_replay builds
    \* the web API on the artifacts of one slug
    db_parsed,      \* data/parsed/<slug>.json: the blocks of the parsed playlist, if any
    db_spotify,     \* data/spotify/<slug>.json: the Spotify artifact, if any
    rt_catalog,     \* the (artist, title) pairs the catalog has a match for
    rt_next_id,     \* the number of playlists the catalog has created
    rt_requests,    \* the number of requests served
    rt_request,     \* the last request
    rt_response,    \* its response
    rt_before,      \* the Spotify artifact as it was before the last request
    rt_calls,       \* the catalog calls the last request made
    created_from,   \* for each playlist id, the block it was created from (0: all blocks)
    \* _process_url after parse_with_llm: merge, then global dedupe
    pu_state,       \* where _process_url is
    pu_blocks,      \* parsed.blocks as parse_with_llm returned them
    pu_merged,      \* merged_blocks
    pu_deduped,     \* deduped_blocks
    \* reprocess_url on a crawl result
    rc_crawl,       \* data/crawl/<slug>.json: None when missing, else the crawl dict
    rc_files,       \* the artifact files by path: None when missing
    rc_request,     \* the last request of reprocess_url
    rc_response,    \* its answer
    rc_before,      \* rc_crawl before the last request
    rc_count,       \* requests served
    \* run_import and run_dev on the artifact files
    pl_files,       \* the files under data/ that exist, as (directory, slug)
    pl_effects,     \* fetches, LLM calls, catalog calls, file writes and playlists so far
    pl_call,        \* the last call of run_import or run_dev, with the state before it
    pl_prev,        \* the call before the last
    pl_count,       \* calls so far
    \* history of search_track
    st_raised,      \* the cache keys of the caller's search_track calls that raised
    st_executions,  \* the executions of the body of _search, where they are counted
    \* history of the token lock
    tl_blocked      \* the threads that were waiting for the lock when a refresh failed

matchVars == <<m_target, m_items, m_applied, m_result>>
clientVars == <<search_cache, access_token>>
retryVars == <<r_fn, r_attempt, r_last, r_state, r_value, r_error>>
searchVars == <<st_state, st_artist, st_title, st_queries, st_responses,
                st_cached, st_result, st_error>>
addVars == <<at_state, at_uris, at_i, at_added, at_failed, at_chunks, at_outcomes>>
historyVars == <<calls_made, sequences, stored_by>>
importVars == <<ri_state, ri_write, parsed, keep_unmatched, mp_block, mp_track, mapped_blocks,
                mapped_tracks, misses, mp_calls, mp_results, mp_error, mp_return,
                creation, artifact, printed>>

tokenVars == <<clock, expires_at, token_lock, callers, refreshes, token_calls>>

\* The variables of the specifications of single functions, which the calls
\* on the client and the mapper leave alone.
workerVars == <<workers>>
normVars == <<nz_text, nz_outputs>>
crawlVars == <<cr_state, cr_index, max_links, dev_mode, links, cr_rest, processed,
               cr_outcomes, crawl_result>>
replayVars == <<rp_state, rp_parsed, rp_data, rp_page>>
routesVars == <<db_parsed, db_spotify, rt_catalog, rt_next_id, rt_requests, rt_request,
                rt_response, rt_before, rt_calls, created_from>>
processVars == <<pu_state, pu_blocks, pu_merged, pu_deduped>>
reprocessVars == <<rc_crawl, rc_files, rc_request, rc_response, rc_before, rc_count>>
pipelineVars == <<pl_files, pl_effects, pl_call, pl_prev, pl_count>>
raisedVars == <<st_raised, st_executions>>
blockedVars == <<tl_blocked>>
sideVars == <<matchVars, tokenVars, workerVars, normVars, crawlVars, replayVars,
             routesVars, processVars, reprocessVars, pipelineVars,
             blockedVars>>
auxVars == <<sideVars, raisedVars>>

\* The variables of the calls on the client and of the mapper.
callVars == <<retryVars, searchVars, addVars, historyVars, importVars>>

\* What the actions of each of these specifications leave alone.
matchFrame == <<clientVars, callVars, tokenVars, workerVars, normVars, crawlVars,
                replayVars, routesVars, processVars, reprocessVars, pipelineVars,
                raisedVars, blockedVars>>
tokenSide == <<matchVars, callVars, workerVars, normVars, crawlVars, replayVars,
               routesVars, processVars, reprocessVars, pipelineVars, raisedVars>>
tokenFrame == <<tokenSide, blockedVars>>
workerFrame == <<matchVars, access_token, tokenVars, retryVars, searchVars, addVars,
                 calls_made, importVars, normVars, crawlVars, replayVars, routesVars,
                 processVars, reprocessVars, pipelineVars, raisedVars, blockedVars>>
normFrame == <<matchVars, clientVars, callVars, tokenVars, workerVars, crawlVars,
               replayVars, routesVars, processVars, reprocessVars, pipelineVars,
               raisedVars, blockedVars>>
crawlFrame == <<matchVars, clientVars, callVars, tokenVars, workerVars, normVars,
                replayVars, routesVars, processVars, reprocessVars, pipelineVars,
                raisedVars, blockedVars>>

replayFrame == <<matchVars, clientVars, retryVars, searchVars, addVars, historyVars,
                 importVars, tokenVars, workerVars, normVars, crawlVars, routesVars,
                 processVars, reprocessVars, pipelineVars, raisedVars, blockedVars>>

routesFrame == <<matchVars, clientVars, retryVars, searchVars, addVars, historyVars,
                 importVars, tokenVars, workerVars, normVars, crawlVars, replayVars,
                 processVars, reprocessVars, pipelineVars, raisedVars, blockedVars>>

processFrame == <<matchVars, clientVars, retryVars, searchVars, addVars, historyVars,
                  importVars, tokenVars, workerVars, normVars, crawlVars, replayVars,
                  routesVars, reprocessVars, pipelineVars, raisedVars, blockedVars>>

reprocessFrame == <<matchVars, clientVars, retryVars, searchVars, addVars, historyVars,
                    importVars, tokenVars, workerVars, normVars, crawlVars, replayVars,
                    routesVars, processVars, pipelineVars, raisedVars, blockedVars>>

pipelineFrame == <<matchVars, clientVars, retryVars, searchVars, addVars, historyVars,
                   importVars, tokenVars, workerVars, normVars, crawlVars, replayVars,
                   routesVars, processVars, reprocessVars, raisedVars, blockedVars>>

vars == <<matchVars, clientVars, retryVars, searchVars, addVars, historyVars,
          importVars, tokenVars, workerVars, normVars, crawlVars, replayVars,
          routesVars, processVars, reprocessVars, pipelineVars, raisedVars,
          blockedVars>>

(***************************************************************************)
(* Outcomes of one execution of the body of a catalog call                 *)
(***************************************************************************)

\* An exception raised by the body: by the token refresh of
\* _get_access_token (stage "token") or by the request itself.
Failure(stage, type, status) == [stage |-> stage, type |-> type, status |-> status]

\* The body returned.
Ok == [stage |-> "request", type |-> "ok", status |-> 200]
\* No execution yet.
NoOutcome == [stage |-> "none", type |-> "none", status |-> 0]

\* The status codes raise_for_status raises httpx.HTTPStatusError for.
StatusCodes == {400, 429, 499, 500}

\* httpx transport errors; ConnectTimeout is neither a ConnectError nor a
\* ReadTimeout.
TransportErrors == {"ConnectError", "ReadTimeout", "ConnectTimeout"}

\* The failures of the request, and those of the token refresh before it.
RequestFailures ==
    {Failure("request", "HTTPStatusError", status) : status \in StatusCodes}
        \cup {Failure("request", type, 0) : type \in TransportErrors}
TokenFailures ==
    {Failure("token", "HTTPStatusError", 400), Failure("token", "HTTPStatusError", 500),
     Failure("token", "ConnectError", 0)}
AllFailures == RequestFailures \cup TokenFailures

\* Mutant of is_retryable: every HTTP status error is retried.
is_retryable_any_status(exc) ==
    IF exc.type = "HTTPStatusError"
    THEN TRUE
    ELSE exc.type \in {"ConnectError", "ReadTimeout"}

\* _is_retryable
is_retryable(exc) ==
    IF exc.type = "HTTPStatusError"
    THEN exc.status = 429 \/ exc.status >= 500
    ELSE exc.type \in {"ConnectError", "ReadTimeout"}

\* stop_after_attempt(3)
StopAfterAttempt == 3

\* Mutant of stop_after_attempt: one more execution is allowed.
stop_after_attempt_late(attempt) == attempt >= StopAfterAttempt + 1

\* The stop condition of the retry decorator: no retry once the body has
\* been executed StopAfterAttempt times.
stop_after_attempt(attempt) == attempt >= StopAfterAttempt

\* Mutant of RetryDecision: every exception is retried until the stop.
RetryDecisionAnyException(outcome, attempt) ==
    IF outcome = Ok THEN "return"
    ELSE IF attempt >= StopAfterAttempt THEN "raise"
    ELSE "retry"

\* What the retry decorator does after execution number attempt of the body
\* ended with outcome: return its value, raise its exception (reraise=True:
\* the exception of the last execution) or execute the body again.
RetryDecision(outcome, attempt) ==
    IF outcome = Ok THEN "return"
    ELSE IF ~is_retryable(outcome) THEN "raise"
    ELSE IF stop_after_attempt(attempt) THEN "raise"
    ELSE "retry"

(***************************************************************************)
(* SpotifyClient                                                           *)
(***************************************************************************)

\* A dict with no key, and d[k] = v.
EmptyDict == [k \in {} |-> None]
dict_set(d, k, v) == [q \in DOMAIN d \cup {k} |-> IF q = k THEN v ELSE d[q]]

\* Mutant of cache_key: the arguments are joined as they are.
cache_key_unfolded(artist, title) == artist \o <<"|">> \o title

\* The cache key of search_track.
cache_key(artist, title) == Strip(Lower(artist)) \o <<"|">> \o Strip(Lower(title))

\* Mutant of cache_hit: a stored None is not taken for a hit.
cache_hit_truthy(cache, key) == key \in DOMAIN cache /\ cache[key] # None

\* cache_key in self._search_cache
cache_hit(cache, key) == key \in DOMAIN cache

\* Mutant of search_queries: the title-only query comes first.
search_queries_title_first(artist, title) ==
    << title,
       Chars("artist:") \o artist \o Chars(" track:") \o title,
       artist \o <<" ">> \o title >>

\* The queries of search_track, in the order they are tried.
search_queries(artist, title) ==
    << Chars("artist:") \o artist \o Chars(" track:") \o title,
       artist \o <<" ">> \o title,
       title >>

\* A decorated function is invoked: no execution of its body yet.
Invoke(fn) ==
    /\ r_fn' = fn
    /\ r_attempt' = 0
    /\ r_last' = NoOutcome
    /\ r_state' = "running"
    /\ r_value' = <<>>
    /\ r_error' = NoOutcome

\* No retried call, no search_track, no add_tracks in progress or on record.
RetryIdle ==
    /\ r_fn = "none" /\ r_attempt = 0 /\ r_last = NoOutcome
    /\ r_state = "idle" /\ r_value = <<>> /\ r_error = NoOutcome
SearchIdle ==
    /\ st_state = "idle" /\ st_artist = <<>> /\ st_title = <<>>
    /\ st_queries = <<>> /\ st_responses = <<>> /\ st_cached = FALSE
    /\ st_result = None /\ st_error = NoOutcome
AddIdle ==
    /\ at_state = "idle" /\ at_uris = <<>> /\ at_i = 0 /\ at_added = 0
    /\ at_failed = <<>> /\ at_chunks = <<>> /\ at_outcomes = <<>>
ClientFields ==
    /\ search_cache = EmptyDict /\ access_token = None
    /\ expires_at = 0 /\ token_lock = 0
ClientInit ==
    /\ ClientFields
    /\ clock = 0 /\ callers = <<>> /\ refreshes = <<>> /\ token_calls = 0
    /\ calls_made = 0 /\ sequences = EmptyDict /\ stored_by = EmptyDict
    /\ workers = <<>>
MatchIdle ==
    /\ m_target = <<>> /\ m_items = <<>> /\ m_applied = FALSE /\ m_result = 0
NormIdle ==
    /\ nz_text = <<>> /\ nz_outputs = <<>>
CrawlIdle ==
    /\ cr_state = "idle" /\ cr_index = <<>> /\ max_links = None /\ dev_mode = FALSE
    /\ links = <<>> /\ cr_rest = <<>> /\ processed = <<>> /\ cr_outcomes = <<>>
    /\ crawl_result = None
\* The variables of the specifications of other functions are idle.
ReplayIdle ==
    /\ rp_state = "idle" /\ rp_parsed = <<>> /\ rp_data = <<>> /\ rp_page = <<>>
RoutesIdle ==
    /\ db_parsed = None /\ db_spotify = None /\ rt_catalog = {} /\ rt_next_id = 0
    /\ rt_requests = 0 /\ rt_request = None /\ rt_response = None /\ rt_before = None
    /\ rt_calls = <<>> /\ created_from = EmptyDict
ProcessIdle ==
    /\ pu_state = "idle" /\ pu_blocks = <<>> /\ pu_merged = <<>> /\ pu_deduped = <<>>
ReprocessIdle ==
    /\ rc_crawl = <<>> /\ rc_files = <<>> /\ rc_request = <<>> /\ rc_response = <<>>
    /\ rc_before = <<>> /\ rc_count = 0
PipelineIdle ==
    /\ pl_files = {} /\ pl_effects = <<>> /\ pl_call = <<>> /\ pl_prev = <<>> /\ pl_count = 0
RaisedIdle ==
    /\ st_raised = {} /\ st_executions = 0
BlockedIdle ==
    /\ tl_blocked = {}
SideIdle == NormIdle /\ CrawlIdle /\ ReplayIdle /\ RoutesIdle /\ ProcessIdle /\ ReprocessIdle /\ PipelineIdle /\ RaisedIdle /\ BlockedIdle
ImportIdle ==
    /\ ri_state = "idle" /\ ri_write = FALSE /\ parsed = <<>>
    /\ keep_unmatched = FALSE
    /\ mp_block = 0 /\ mp_track = 0 /\ mapped_blocks = <<>> /\ mapped_tracks = <<>>
    /\ misses = <<>> /\ mp_calls = <<>> /\ mp_results = <<>>
    /\ mp_error = NoOutcome /\ mp_return = None
    /\ creation = None /\ artifact = None /\ printed = None

\* The same, as the record of the previous call being cleared.
ClearRetry ==
    /\ r_fn' = "none" /\ r_attempt' = 0 /\ r_last' = NoOutcome
    /\ r_state' = "idle" /\ r_value' = <<>> /\ r_error' = NoOutcome
ClearSearch ==
    /\ st_state' = "idle" /\ st_artist' = <<>> /\ st_title' = <<>>
    /\ st_queries' = <<>> /\ st_responses' = <<>> /\ st_cached' = FALSE
    /\ st_result' = None /\ st_error' = NoOutcome
ClearAdd ==
    /\ at_state' = "idle" /\ at_uris' = <<>> /\ at_i' = 0 /\ at_added' = 0
    /\ at_failed' = <<>> /\ at_chunks' = <<>> /\ at_outcomes' = <<>>

\* No call on the client is in progress.
Quiescent ==
    /\ r_state # "running"
    /\ st_state # "running"
    /\ at_state \notin {"called", "running"}

\* The values the body of r_fn can return: an item list of the catalog for
\* _search, the created playlist for create_playlist, None for
\* _add_tracks_chunk.
ReturnValues(fn, responses) ==
    IF fn = "_search" THEN responses
    ELSE IF fn = "create_playlist" THEN {<<[id |-> "playlist"]>>}
    ELSE {<<>>}

\* One execution of the body of the decorated function in progress, and the
\* decision of the retry decorator on its outcome.  The body first gets the
\* authorization header: _get_access_token sends a refresh request when the
\* client has no token or the token has expired, and its exception leaves
\* the stored token as it was; then it sends the request and raises on an
\* error status.  These calls are not followed on the clock: whether the
\* stored token has expired when the body runs is drawn.
execute_body(failures, responses) ==
    /\ r_state = "running"
    /\ \E expired \in BOOLEAN, outcome \in {Ok} \cup failures :
          LET refresh == access_token = None \/ expired
              decision == RetryDecision(outcome, r_attempt + 1)
          IN  /\ outcome.stage = "token" => refresh
              /\ access_token' = IF refresh /\ outcome.stage # "token"
                                 THEN Some("access") ELSE access_token
              /\ r_attempt' = r_attempt + 1
              /\ r_last' = outcome
              /\ r_state' = CASE decision = "return" -> "returned"
                              [] decision = "raise" -> "raised"
                              [] OTHER -> "running"
              /\ IF decision = "return"
                 THEN r_value' \in ReturnValues(r_fn, responses)
                 ELSE r_value' = r_value
              /\ r_error' = IF decision = "raise" THEN outcome ELSE r_error
    /\ UNCHANGED <<r_fn, search_cache>>
    /\ UNCHANGED <<sideVars, searchVars, addVars, historyVars, importVars>>

\* An execution of the body of a decorated function.
ExecuteBody(failures, responses) ==
    /\ execute_body(failures, responses)
    /\ UNCHANGED raisedVars

\* The same, with the executions of the body of _search counted.
ExecuteBodyCounted(failures, responses) ==
    /\ execute_body(failures, responses)
    /\ st_executions' = st_executions + (IF r_fn = "_search" THEN 1 ELSE 0)
    /\ UNCHANGED st_raised

\* search_track(artist, title) up to its first call of _search: the cached
\* result is returned when the key is in the cache, else the first query is
\* passed to _search.
search_track_call(artist, title) ==
    /\ st_artist' = artist
    /\ st_title' = title
    /\ st_responses' = <<>>
    /\ st_error' = NoOutcome
    /\ IF cache_hit(search_cache, cache_key(artist, title))
       THEN /\ st_state' = "returned"
            /\ st_cached' = TRUE
            /\ st_result' = search_cache[cache_key(artist, title)]
            /\ st_queries' = <<>>
            /\ ClearRetry
       ELSE /\ st_state' = "running"
            /\ st_cached' = FALSE
            /\ st_result' = None
            /\ st_queries' = <<search_queries(artist, title)[1]>>
            /\ Invoke("_search")
    /\ UNCHANGED <<search_cache, access_token, sequences, stored_by>>

\* Mutant of search_track_step: after the last query None is returned but
\* not stored.
search_track_step_none_unstored(best) ==
    IF best # None
    THEN /\ search_cache' = dict_set(search_cache, cache_key(st_artist, st_title), best)
         /\ sequences' = dict_set(sequences, cache_key(st_artist, st_title),
                            IF cache_key(st_artist, st_title) \in DOMAIN sequences
                            THEN sequences[cache_key(st_artist, st_title)] + 1 ELSE 1)
         /\ stored_by' = dict_set(stored_by, cache_key(st_artist, st_title),
                                  [artist |-> st_artist, title |-> st_title,
                                   result |-> best])
         /\ st_state' = "returned"
         /\ st_result' = best
         /\ UNCHANGED <<st_queries, retryVars>>
    ELSE IF Len(st_queries) >= Len(search_queries(st_artist, st_title))
    THEN /\ st_state' = "returned"
         /\ st_result' = None
         /\ UNCHANGED <<search_cache, sequences, stored_by, st_queries, retryVars>>
    ELSE /\ st_queries' = Append(st_queries,
                              search_queries(st_artist, st_title)[Len(st_queries) + 1])
         /\ Invoke("_search")
         /\ UNCHANGED <<search_cache, sequences, stored_by, st_state, st_result>>

\* search_track after _best_match returned best on the items of a query:
\* an accepted match is stored and returned, else the next query is passed
\* to _search, and after the last query None is stored and returned.
search_track_step(best) ==
    IF best # None \/ Len(st_queries) >= Len(search_queries(st_artist, st_title))
    THEN /\ search_cache' = dict_set(search_cache, cache_key(st_artist, st_title), best)
         /\ sequences' = dict_set(sequences, cache_key(st_artist, st_title),
                            IF cache_key(st_artist, st_title) \in DOMAIN sequences
                            THEN sequences[cache_key(st_artist, st_title)] + 1 ELSE 1)
         /\ stored_by' = dict_set(stored_by, cache_key(st_artist, st_title),
                                  [artist |-> st_artist, title |-> st_title,
                                   result |-> best])
         /\ st_state' = "returned"
         /\ st_result' = best
         /\ UNCHANGED <<st_queries, retryVars>>
    ELSE /\ st_queries' = Append(st_queries,
                              search_queries(st_artist, st_title)[Len(st_queries) + 1])
         /\ Invoke("_search")
         /\ UNCHANGED <<search_cache, sequences, stored_by, st_state, st_result>>

\* _search returned its items to search_track: _best_match is applied.
SearchReturned ==
    /\ st_state = "running" /\ r_fn = "_search" /\ r_state = "returned"
    /\ st_responses' = Append(st_responses, r_value)
    /\ search_track_step(best_match(r_value, normalize(st_artist), normalize(st_title)))
    /\ UNCHANGED <<access_token, calls_made, st_artist, st_title, st_cached, st_error>>
    /\ UNCHANGED <<auxVars, addVars, importVars>>

\* Mutant of SearchRaised: the failed search is stored as a no-match.
SearchRaisedStoresNone ==
    /\ st_state = "running" /\ r_fn = "_search" /\ r_state = "raised"
    /\ st_state' = "raised"
    /\ st_error' = r_error
    /\ st_raised' = st_raised \cup {cache_key(st_artist, st_title)}
    /\ UNCHANGED st_executions
    /\ search_cache' = dict_set(search_cache, cache_key(st_artist, st_title), None)
    /\ UNCHANGED <<st_artist, st_title, st_queries, st_responses, st_cached, st_result>>
    /\ UNCHANGED <<sideVars, access_token, retryVars, addVars, historyVars, importVars>>

\* _search raised: search_track raises the same exception, the cache is
\* left as it was.
SearchRaised ==
    /\ st_state = "running" /\ r_fn = "_search" /\ r_state = "raised"
    /\ st_state' = "raised"
    /\ st_error' = r_error
    /\ st_raised' = st_raised \cup {cache_key(st_artist, st_title)}
    /\ UNCHANGED st_executions
    /\ UNCHANGED <<st_artist, st_title, st_queries, st_responses, st_cached, st_result>>
    /\ UNCHANGED <<sideVars, clientVars, retryVars, addVars, historyVars, importVars>>

\* A caller calls search_track on the client.
CallSearchTrack(tracks, max_calls) ==
    /\ Quiescent
    /\ calls_made < max_calls
    /\ calls_made' = calls_made + 1
    /\ \E track \in tracks : search_track_call(track[1], track[2])
    /\ ClearAdd
    /\ UNCHANGED <<auxVars, importVars>>

\* A caller calls create_playlist on the client.
CallCreatePlaylist(max_calls) ==
    /\ Quiescent
    /\ calls_made < max_calls
    /\ calls_made' = calls_made + 1
    /\ Invoke("create_playlist")
    /\ ClearSearch
    /\ ClearAdd
    /\ UNCHANGED <<sequences, stored_by, clientVars, auxVars, importVars>>

(***************************************************************************)
(* add_tracks                                                              *)
(***************************************************************************)

\* The number of URIs of one request.
ChunkSize == 100

\* A list of n distinct URIs.
Uris(n) == [i \in 1..n |-> i]

\* Mutant of chunk_at: the slice is one short.
chunk_at_short(uris, i) ==
    SubSeq(uris, i + 1, IF i + ChunkSize - 1 < Len(uris) THEN i + ChunkSize - 1 ELSE Len(uris))

\* uris[i : i + 100]
chunk_at(uris, i) ==
    SubSeq(uris, i + 1, IF i + ChunkSize < Len(uris) THEN i + ChunkSize ELSE Len(uris))

\* Mutant of on_chunk_raised: failed is replaced instead of extended.
on_chunk_raised_replace(added, failed, chunk) == [added |-> added, failed |-> chunk]

\* Mutant of on_chunk_returned: a chunk is counted as one track.
on_chunk_returned_one(added, failed, chunk) == [added |-> added + 1, failed |-> failed]

\* (added, failed) after _add_tracks_chunk(chunk) returned, and after it raised.
on_chunk_returned(added, failed, chunk) ==
    [added |-> added + Len(chunk), failed |-> failed]
on_chunk_raised(added, failed, chunk) ==
    [added |-> added, failed |-> failed \o chunk]

\* A caller calls add_tracks on the client with a list of at most max_uris URIs.
CallAddTracks(max_uris, max_calls) ==
    /\ Quiescent
    /\ calls_made < max_calls
    /\ calls_made' = calls_made + 1
    /\ \E n \in 0..max_uris : at_uris' = Uris(n)
    /\ at_state' = "called"
    /\ at_i' = 0 /\ at_added' = 0 /\ at_failed' = <<>>
    /\ at_chunks' = <<>> /\ at_outcomes' = <<>>
    /\ ClearRetry
    /\ ClearSearch
    /\ UNCHANGED <<sequences, stored_by, clientVars, auxVars, importVars>>

\* The loop of add_tracks at position i: the chunk at i is passed to
\* _add_tracks_chunk, and past the end (added, failed) is returned.
add_tracks_loop(i) ==
    /\ at_i' = i
    /\ IF i < Len(at_uris)
       THEN /\ at_state' = "running"
            /\ at_chunks' = Append(at_chunks, chunk_at(at_uris, i))
            /\ Invoke("_add_tracks_chunk")
       ELSE /\ at_state' = "returned"
            /\ at_chunks' = at_chunks
            /\ UNCHANGED retryVars

\* add_tracks enters its loop.
AddTracksBegin ==
    /\ at_state = "called"
    /\ add_tracks_loop(0)
    /\ UNCHANGED <<at_uris, at_added, at_failed, at_outcomes>>
    /\ UNCHANGED <<auxVars, clientVars, searchVars, historyVars, importVars>>

\* _add_tracks_chunk returned: the chunk is counted and the loop goes on.
ChunkReturned ==
    /\ at_state = "running" /\ r_fn = "_add_tracks_chunk" /\ r_state = "returned"
    /\ LET after == on_chunk_returned(at_added, at_failed, at_chunks[Len(at_chunks)])
       IN  at_added' = after.added /\ at_failed' = after.failed
    /\ at_outcomes' = Append(at_outcomes, TRUE)
    /\ add_tracks_loop(at_i + ChunkSize)
    /\ UNCHANGED at_uris
    /\ UNCHANGED <<auxVars, clientVars, searchVars, historyVars, importVars>>

\* _add_tracks_chunk raised: the exception is caught, the chunk is recorded
\* as failed and the loop goes on.
ChunkRaised ==
    /\ at_state = "running" /\ r_fn = "_add_tracks_chunk" /\ r_state = "raised"
    /\ LET after == on_chunk_raised(at_added, at_failed, at_chunks[Len(at_chunks)])
       IN  at_added' = after.added /\ at_failed' = after.failed
    /\ at_outcomes' = Append(at_outcomes, FALSE)
    /\ add_tracks_loop(at_i + ChunkSize)
    /\ UNCHANGED at_uris
    /\ UNCHANGED <<auxVars, clientVars, searchVars, historyVars, importVars>>

(***************************************************************************)
(* _map_tracks_to_spotify and run_import                                   *)
(***************************************************************************)

\* models.Track and models.TrackBlock: album, source_line and context are
\* Optional.
Track(artist, title, album, source_line) ==
    [artist |-> artist, title |-> title, album |-> album, source_line |-> source_line]
TrackBlock(title, context, tracks) ==
    [title |-> title, context |-> context, tracks |-> tracks]

\* Mutant of map_track: a track without a match is dropped silently.
map_track_drop(tracks, missed, block, track, result) ==
    IF result = None
    THEN [mapped_tracks |-> tracks, misses |-> missed]
    ELSE [mapped_tracks |->
              Append(tracks, [artist |-> track.artist,
                              title |-> track.title,
                              album |-> track.album,
                              source_line |-> track.source_line,
                              spotify_uri |-> result[1].uri,
                              spotify_url |-> result[1].url]),
          misses |-> missed]

\* The body of the track loop after search_track returned result: a miss is
\* appended to misses, a match to the block's mapped tracks.
map_track(tracks, missed, block, track, result) ==
    IF result = None
    THEN [mapped_tracks |-> tracks,
          misses |-> Append(missed, [block |-> block.title,
                                     artist |-> track.artist,
                                     title |-> track.title])]
    ELSE [mapped_tracks |->
              Append(tracks, [artist |-> track.artist,
                              title |-> track.title,
                              album |-> track.album,
                              source_line |-> track.source_line,
                              spotify_uri |-> result[1].uri,
                              spotify_url |-> result[1].url]),
          misses |-> missed]

\* Mutant of map_track_mode: keep_unmatched is ignored.
map_track_mode_ignored(tracks, missed, block, track, result, keep) ==
    map_track(tracks, missed, block, track, result)

\* The body of the track loop with the keep_unmatched argument of the remap
\* endpoint: a track without a match is then kept in the block with its
\* original fields and no spotify_uri or spotify_url, next to its MissRecord.
map_track_mode(tracks, missed, block, track, result, keep) ==
    IF keep /\ result = None
    THEN [mapped_tracks |->
              Append(tracks, [artist |-> track.artist,
                              title |-> track.title,
                              album |-> track.album,
                              source_line |-> track.source_line]),
          misses |-> map_track(tracks, missed, block, track, result).misses]
    ELSE map_track(tracks, missed, block, track, result)

\* Mutant of end_block: a block without mapped tracks is left out.
end_block_skip_empty(blocks, block, tracks) ==
    IF tracks = <<>> THEN blocks
    ELSE Append(blocks, [title |-> block.title, context |-> block.context,
                         tracks |-> tracks])

\* The end of the block loop's body: the mapped block is appended.
end_block(blocks, block, tracks) ==
    Append(blocks, [title |-> block.title, context |-> block.context,
                    tracks |-> tracks])

\* The mapper calls search_track for the track at the loop position.
MapperCall ==
    /\ ri_state = "mapping"
    /\ mp_block <= Len(parsed)
    /\ mp_track <= Len(parsed[mp_block].tracks)
    /\ LET track == parsed[mp_block].tracks[mp_track]
       IN  /\ search_track_call(track.artist, track.title)
           /\ mp_calls' = Append(mp_calls, <<track.artist, track.title>>)
    /\ ri_state' = "awaiting"
    /\ UNCHANGED <<ri_write, parsed, keep_unmatched, mp_block, mp_track, mapped_blocks, mapped_tracks,
                   misses, mp_results, mp_error, mp_return, creation, artifact, printed>>
    /\ UNCHANGED <<auxVars, addVars, calls_made>>

\* search_track returned to the mapper.
MapperResult ==
    /\ ri_state = "awaiting" /\ st_state = "returned"
    /\ LET block == parsed[mp_block]
           after == map_track_mode(mapped_tracks, misses, block, block.tracks[mp_track],
                                   st_result, keep_unmatched)
       IN  /\ mapped_tracks' = after.mapped_tracks
           /\ misses' = after.misses
    /\ mp_results' = Append(mp_results, st_result)
    /\ mp_track' = mp_track + 1
    /\ ri_state' = "mapping"
    /\ UNCHANGED <<ri_write, parsed, keep_unmatched, mp_block, mapped_blocks, mp_calls, mp_error,
                   mp_return, creation, artifact, printed>>
    /\ UNCHANGED <<auxVars, clientVars, retryVars, searchVars, addVars, historyVars>>

\* Mutant of MapperRaised: the exception of search_track is caught, the
\* track is recorded as a miss and the loop goes on.
MapperRaisedAsMiss ==
    /\ ri_state = "awaiting" /\ st_state = "raised"
    /\ misses' = Append(misses, [block |-> parsed[mp_block].title,
                                 artist |-> st_artist, title |-> st_title])
    /\ mp_results' = Append(mp_results, None)
    /\ mp_track' = mp_track + 1
    /\ ri_state' = "mapping"
    /\ UNCHANGED <<ri_write, parsed, keep_unmatched, mp_block, mapped_blocks, mapped_tracks, mp_calls,
                   mp_error, mp_return, creation, artifact, printed>>
    /\ UNCHANGED <<auxVars, clientVars, retryVars, searchVars, addVars, historyVars>>

\* search_track raised: nothing in the mapper catches the exception, so the
\* mapper, and run_import with it, raise it; nothing is returned.
MapperRaised ==
    /\ ri_state = "awaiting" /\ st_state = "raised"
    /\ ri_state' = "raised"
    /\ mp_error' = st_error
    /\ UNCHANGED <<ri_write, parsed, keep_unmatched, mp_block, mp_track, mapped_blocks, mapped_tracks,
                   misses, mp_calls, mp_results, mp_return, creation, artifact, printed>>
    /\ UNCHANGED <<auxVars, clientVars, retryVars, searchVars, addVars, historyVars>>

\* The tracks of the block are done: its mapped block is appended.
MapperBlockEnd ==
    /\ ri_state = "mapping"
    /\ mp_block <= Len(parsed)
    /\ mp_track > Len(parsed[mp_block].tracks)
    /\ mapped_blocks' = end_block(mapped_blocks, parsed[mp_block], mapped_tracks)
    /\ mapped_tracks' = <<>>
    /\ mp_block' = mp_block + 1
    /\ mp_track' = 1
    /\ UNCHANGED <<ri_state, ri_write, parsed, keep_unmatched, misses, mp_calls, mp_results, mp_error,
                   mp_return, creation, artifact, printed>>
    /\ UNCHANGED <<auxVars, clientVars, retryVars, searchVars, addVars, historyVars>>

\* The blocks are done: the mapper returns (mapped_blocks, misses).
MapperReturn ==
    /\ ri_state = "mapping"
    /\ mp_block > Len(parsed)
    /\ ri_state' = "mapped"
    /\ mp_return' = Some(<<mapped_blocks, misses>>)
    /\ UNCHANGED <<ri_write, parsed, keep_unmatched, mp_block, mp_track, mapped_blocks, mapped_tracks,
                   misses, mp_calls, mp_results, mp_error, creation, artifact, printed>>
    /\ UNCHANGED <<auxVars, clientVars, retryVars, searchVars, addVars, historyVars>>

\* The URIs of a mapped block.
block_uris(block) == [i \in DOMAIN block.tracks |-> block.tracks[i].spotify_uri]

\* Mutant of CreatePlaylists: when the creation raises, what was mapped is
\* saved before the exception goes on.
CreatePlaylistsSavesOnError ==
    /\ ri_state = "mapped"
    /\ \E write \in BOOLEAN, ok \in BOOLEAN :
          /\ ri_write' = write
          /\ IF ~write
             THEN /\ creation' = Some([playlists |-> <<>>, failed_tracks |-> <<>>])
                  /\ ri_state' = "created"
                  /\ artifact' = artifact
             ELSE IF ok
             THEN /\ creation' =
                        Some([playlists |->
                                  SelectSeq([i \in DOMAIN mapped_blocks |->
                                                 block_uris(mapped_blocks[i])],
                                            LAMBDA u : u # <<>>),
                              failed_tracks |-> <<>>])
                  /\ ri_state' = "created"
                  /\ artifact' = artifact
             ELSE /\ creation' = None
                  /\ ri_state' = "raised"
                  /\ artifact' = Some([blocks |-> mapped_blocks, playlists |-> <<>>,
                                       misses |-> misses, failed_tracks |-> <<>>,
                                       write_playlists |-> write])
    /\ UNCHANGED <<parsed, keep_unmatched, mp_block, mp_track, mapped_blocks, mapped_tracks, misses,
                   mp_calls, mp_results, mp_error, mp_return, printed>>
    /\ UNCHANGED <<auxVars, clientVars, retryVars, searchVars, addVars, historyVars>>

\* The creation step of run_import.  The catalog calls of _create_playlists
\* are not followed here: the step either raises or returns one playlist
\* for each mapped block that has URIs; without write_playlists it returns
\* the empty result.
CreatePlaylists ==
    /\ ri_state = "mapped"
    /\ \E write \in BOOLEAN, ok \in BOOLEAN :
          /\ ri_write' = write
          /\ IF ~write
             THEN /\ creation' = Some([playlists |-> <<>>, failed_tracks |-> <<>>])
                  /\ ri_state' = "created"
             ELSE IF ok
             THEN /\ creation' =
                        Some([playlists |->
                                  SelectSeq([i \in DOMAIN mapped_blocks |->
                                                 block_uris(mapped_blocks[i])],
                                            LAMBDA u : u # <<>>),
                              failed_tracks |-> <<>>])
                  /\ ri_state' = "created"
             ELSE /\ creation' = None
                  /\ ri_state' = "raised"
    /\ UNCHANGED <<parsed, keep_unmatched, mp_block, mp_track, mapped_blocks, mapped_tracks, misses,
                   mp_calls, mp_results, mp_error, mp_return, artifact, printed>>
    /\ UNCHANGED <<auxVars, clientVars, retryVars, searchVars, addVars, historyVars>>

\* The JSON run_import writes.
artifact_of(blocks, created, missed, write) ==
    [blocks |-> blocks, playlists |-> created.playlists, misses |-> missed,
     failed_tracks |-> created.failed_tracks, write_playlists |-> write]

\* run_import writes the artifact and prints the summary line.
WriteArtifact ==
    /\ ri_state = "created"
    /\ artifact' = Some(artifact_of(mapped_blocks, creation[1], misses, ri_write))
    /\ printed' = Some([playlists |-> Len(creation[1].playlists),
                        misses |-> Len(misses)])
    /\ ri_state' = "done"
    /\ UNCHANGED <<ri_write, parsed, keep_unmatched, mp_block, mp_track, mapped_blocks, mapped_tracks,
                   misses, mp_calls, mp_results, mp_error, mp_return, creation>>
    /\ UNCHANGED <<auxVars, clientVars, retryVars, searchVars, addVars, historyVars>>

(***************************************************************************)
(* The inputs of the model                                                 *)
(***************************************************************************)

ItemExact == Item("exact", "CD", <<"AB">>)
ItemHalf == Item("half", "cx", <<"ax">>)
ItemUnrelated == Item("unrelated", "xy", <<"zz">>)
ItemPunct == Item("punct", "-", <<"!">>)

\* The longest item list the catalog answers a search with.
MaxResponseItems == 1
\* The number of calls made on one client.
MaxCalls == 2
\* The longest URI list passed to add_tracks next to searches.
MaxClientUris == 2
\* The longest URI list passed to add_tracks on its own.
MaxUris == 250
\* The number of blocks of a page and of tracks of a block.
MaxBlocks == 2
MaxBlockTracks == 2

ClientTracks == {TrackAbCd, TrackAbCdUpper, TrackPunct}
ClientResponses ==
    SeqsUpTo({ItemExact, ItemHalf, ItemPunct}, MaxResponseItems)

AddFailures ==
    {Failure("request", "HTTPStatusError", 400), Failure("request", "HTTPStatusError", 429)}

ImportTracks ==
    { Track(TrackAbCd[1], TrackAbCd[2], Some("LP"), Some("1. Ab - cd")),
      Track(TrackAbCdUpper[1], TrackAbCdUpper[2], None, Some("2. AB - CD")),
      Track(TrackPunct[1], TrackPunct[2], None, None) }
ImportResponses == {<<>>, <<ItemExact>>, <<ItemHalf, ItemUnrelated>>, <<ItemPunct>>}
ImportFailures ==
    {Failure("request", "HTTPStatusError", 400), Failure("request", "HTTPStatusError", 503),
     Failure("token", "HTTPStatusError", 400)}

\* The pages of the model: block p is titled <<"Side", p>>, every second
\* block has a context.
PageOf(lists) ==
    [p \in DOMAIN lists |->
        TrackBlock(<<"Side", p>>, IF p % 2 = 0 THEN Some("Live") ELSE None, lists[p])]
Pages == {PageOf(lists) : lists \in SeqsUpTo(SeqsUpTo(ImportTracks, MaxBlockTracks), MaxBlocks)}

(***************************************************************************)
(* _best_match as a pure function: the inputs are drawn in the initial     *)
(* state and the one action applies it.                                    *)
(***************************************************************************)

\* The longest candidate list _best_match is applied to.
MaxItems == 2

MatchTargets == {TrackAbCd, TrackAbCDash, TrackAccent, TrackPunct}

InitMatch ==
    /\ m_target \in MatchTargets
    /\ m_items \in SeqsUpTo(CatalogItems, MaxItems)
    /\ m_applied = FALSE
    /\ m_result = 0
    /\ ClientInit /\ RetryIdle /\ SearchIdle /\ AddIdle /\ ImportIdle /\ SideIdle

\* _best_match(items, target_artist, target_title) with the targets
\* normalized as search_track normalizes them.
ApplyBestMatch ==
    /\ ~m_applied
    /\ m_target # <<>>
    /\ m_applied' = TRUE
    /\ m_result' = best_match_index(m_items, normalize(m_target[1]), normalize(m_target[2]))
    /\ UNCHANGED <<m_target, m_items>>
    /\ UNCHANGED matchFrame

NextMatch == ApplyBestMatch

SpecMatch == InitMatch /\ [][NextMatch]_vars

\* The normalized targets and candidates of the state.
TargetArtist == normalize(m_target[1])
TargetTitle == normalize(m_target[2])
CandTitle(k) == normalize(m_items[k].name)
CandArtists(k) == {normalize(m_items[k].artists[i]) : i \in DOMAIN m_items[k].artists}

\* Candidate k is an exact match of the target.
ExactAt(k) == CandTitle(k) = TargetTitle /\ TargetArtist \in CandArtists(k)

\* The weighted score 0.6 * title_ratio + 0.4 * artist_ratio of candidate k.
ScoreAt(k) ==
    score_of(TargetArtist, TargetTitle, CandTitle(k), cand_artists_of(m_items[k]))

\* C3: if some candidate is an exact match of the target (normalized name
\* equal to the normalized title, normalized artist among its normalized
\* artists), _best_match returns the first such candidate in input order,
\* whatever the other candidates are.
C3_ExactFirst ==
    m_applied =>
        \A k \in DOMAIN m_items :
            (ExactAt(k) /\ \A j \in 1..(k - 1) : ~ExactAt(j)) => m_result = k

\* C3 witness: an exact candidate was returned although a fuzzy candidate
\* that is accepted on its own precedes it.
C3_Witness ==
    /\ m_applied
    /\ Len(m_items) = 2
    /\ ~ExactAt(1) /\ ~FLess(ScoreAt(1), Threshold)
    /\ ExactAt(2)
    /\ m_result = 2

\* C4: when no candidate is an exact match, _best_match returns None iff the
\* list is empty or every weighted score is strictly below 0.5; a best score
\* of exactly 0.5 is accepted.
C4_Threshold ==
    (m_applied /\ \A k \in DOMAIN m_items : ~ExactAt(k)) =>
        /\ m_result = 0 <=>
              (m_items = <<>> \/ \A k \in DOMAIN m_items : FLess(ScoreAt(k), Threshold))
        /\ m_result # 0 =>
              \A k \in DOMAIN m_items : ~FLess(ScoreAt(m_result), ScoreAt(k))

\* C4 witness: no exact candidate, the best score is exactly 0.5, and the
\* candidate is returned.
C4_Witness ==
    /\ m_applied
    /\ m_items # <<>>
    /\ \A k \in DOMAIN m_items : ~ExactAt(k) /\ ~FLess(Threshold, ScoreAt(k))
    /\ \E k \in DOMAIN m_items : ScoreAt(k) = Threshold
    /\ m_result # 0

\* The two-phase policy on the candidates of the state: the first exact
\* candidate of the whole list when there is one; else the first candidate
\* of the largest score when that score is at least 0.5; else None (0).
FirstExact == CHOOSE k \in DOMAIN m_items : ExactAt(k) /\ \A j \in 1..(k - 1) : ~ExactAt(j)
FirstBest ==
    CHOOSE k \in DOMAIN m_items :
        /\ \A j \in DOMAIN m_items : ~FLess(ScoreAt(k), ScoreAt(j))
        /\ \A j \in 1..(k - 1) : FLess(ScoreAt(j), ScoreAt(k))
TwoPhase ==
    IF \E k \in DOMAIN m_items : ExactAt(k) THEN FirstExact
    ELSE IF m_items = <<>> THEN 0
    ELSE IF FLess(ScoreAt(FirstBest), Threshold) THEN 0
    ELSE FirstBest

\* C26: the single-pass loop of _best_match, which tests and scores one
\* candidate after the other, returns for every candidate list and target
\* what the two-phase policy returns: the first exact candidate of the list
\* and, only when there is none, the outcome of scoring and threshold.
C26_SinglePassIsTwoPhase == m_applied => m_result = TwoPhase

\* C26 witness: the loop scored a first candidate that the threshold would
\* accept before it came to the exact candidate at the end of the list; the
\* exact one is returned, as by the two-phase policy.
C26_Witness ==
    /\ m_applied
    /\ Len(m_items) = MaxItems
    /\ ~ExactAt(1) /\ ~FLess(ScoreAt(1), Threshold)
    /\ ExactAt(MaxItems)
    /\ m_result = MaxItems
    /\ TwoPhase = MaxItems
    /\ m_target = TrackAbCd

\* C18: when no candidate is an exact match and some score is at least 0.5,
\* _best_match returns the candidate of the largest score, and of several
\* candidates with that score the first in input order.
C18_FirstOfBest ==
    (/\ m_applied
     /\ \A k \in DOMAIN m_items : ~ExactAt(k)
     /\ \E k \in DOMAIN m_items : ~FLess(ScoreAt(k), Threshold)) =>
        /\ m_result \in DOMAIN m_items
        /\ \A k \in DOMAIN m_items : ~FLess(ScoreAt(m_result), ScoreAt(k))
        /\ \A k \in 1..(m_result - 1) : FLess(ScoreAt(k), ScoreAt(m_result))

\* C18 witness: two different candidates have the same score of at least
\* 0.5, which no candidate exceeds, and the first of them was returned.
C18_Witness ==
    /\ m_applied
    /\ Len(m_items) = 2
    /\ m_items[1] # m_items[2]
    /\ ~ExactAt(1) /\ ~ExactAt(2)
    /\ ScoreAt(1) = ScoreAt(2)
    /\ ~FLess(ScoreAt(1), Threshold)
    /\ m_result = 1

(***************************************************************************)
(* One client, called by one caller at a time                              *)
(***************************************************************************)

Init ==
    /\ ClientInit /\ RetryIdle /\ SearchIdle /\ AddIdle /\ MatchIdle /\ ImportIdle /\ SideIdle

Next ==
    \/ CallSearchTrack(ClientTracks, MaxCalls)
    \/ CallCreatePlaylist(MaxCalls)
    \/ CallAddTracks(MaxClientUris, MaxCalls)
    \/ AddTracksBegin
    \/ ExecuteBody(AllFailures, ClientResponses)
    \/ SearchReturned
    \/ SearchRaised
    \/ ChunkReturned
    \/ ChunkRaised

Spec == Init /\ [][Next]_vars

\* The cache key of the search_track call on record.
CallKey == cache_key(st_artist, st_title)

\* No entry of the cache is overwritten or removed by the step.
CacheWriteOnce ==
    \A key \in DOMAIN search_cache :
        key \in DOMAIN search_cache' /\ search_cache'[key] = search_cache[key]

\* At most one search sequence has returned for each key; a call that
\* searches has a key that is not in the cache; a call answered from the
\* cache has passed no query to _search and returns the stored result.
SearchedOncePerKey ==
    /\ \A key \in DOMAIN sequences : sequences[key] <= 1
    /\ st_state = "running" => CallKey \notin DOMAIN search_cache
    /\ (st_state = "returned" /\ st_cached) =>
          /\ st_queries = <<>>
          /\ r_state = "idle"
          /\ CallKey \in DOMAIN search_cache
          /\ st_result = search_cache[CallKey]

\* C1: the search sequence runs at most once per cache key; a later call
\* with the same key returns the stored result (a candidate or None) without
\* calling _search, and a stored cache entry is never overwritten or removed.
C1_SearchOncePerKey == [][CacheWriteOnce /\ SearchedOncePerKey']_vars

\* C1 witness: a call was answered from the cache with a stored None, after
\* the one search sequence of its key.
C1_Witness ==
    /\ st_state = "returned" /\ st_cached
    /\ st_result = None
    /\ sequences[CallKey] = 1

\* The item _best_match accepts in response k of the call on record.
AcceptedIn(k) == best_match(st_responses[k], normalize(st_artist), normalize(st_title))

\* C2: an uncached search_track issues 'artist:<artist> track:<title>', then
\* '<artist> <title>', then '<title>'; query k+1 is issued only if response k
\* had no accepted match, and the call returns the accepted match of the
\* first query that has one.
C2_QueryOrder ==
    (st_state \in {"running", "returned", "raised"} /\ ~st_cached) =>
        LET expected == << Chars("artist:") \o st_artist \o Chars(" track:") \o st_title,
                           st_artist \o Chars(" ") \o st_title,
                           st_title >>
            issued == Len(st_queries)
        IN  /\ issued \in 1..3
            /\ st_queries = SubSeq(expected, 1, issued)
            /\ Len(st_responses) \in {issued - 1, issued}
            /\ \A k \in 1..(issued - 1) : AcceptedIn(k) = None
            /\ st_state = "returned" =>
                  /\ Len(st_responses) = issued
                  /\ st_result = AcceptedIn(issued)
                  /\ st_result = None => issued = 3

\* C2 witness: the first response was empty, the second had an exact
\* candidate: two queries were issued and that candidate returned.
C2_Witness ==
    /\ st_state = "returned" /\ ~st_cached
    /\ Len(st_queries) = 2
    /\ st_responses = << <<>>, <<ItemExact>> >>
    /\ st_result = Some(ItemExact)

\* The failures the retry is specified for: connect error, read timeout,
\* HTTP 429 and HTTP status >= 500.
Transient(exc) ==
    \/ exc.type \in {"ConnectError", "ReadTimeout"}
    \/ exc.type = "HTTPStatusError" /\ (exc.status = 429 \/ exc.status >= 500)

\* The step executes the body of the retried call once more.
BodyExecuted == r_attempt' = r_attempt + 1

\* C7: an invocation of _search, create_playlist or _add_tracks_chunk
\* executes its body at most 3 times; the body is executed again only after
\* a retryable failure, the call returns at the first success, and after a
\* third retryable failure the last error is raised to the caller.
C7_RetryBudget ==
    [][ /\ r_attempt' <= 3
        /\ r_attempt' \in {0, r_attempt, r_attempt + 1}
        /\ (BodyExecuted /\ r_attempt >= 1) => (r_state = "running" /\ Transient(r_last))
        /\ (BodyExecuted /\ r_last' = Ok) => r_state' = "returned"
        /\ (BodyExecuted /\ r_last' # Ok /\ Transient(r_last') /\ r_attempt' < 3) =>
              r_state' = "running"
        /\ (BodyExecuted /\ r_last' # Ok /\ r_attempt' = 3) =>
              (r_state' = "raised" /\ r_error' = r_last')
        /\ r_state' = "returned" => r_last' = Ok
        /\ st_state' = "raised" => (r_fn' = "_search" /\ st_error' = r_error')
      ]_vars

\* C7 witness: the third execution of the body of _search failed with a
\* retryable error, which search_track raised.
C7_Witness ==
    /\ r_fn = "_search" /\ r_attempt = 3 /\ r_state = "raised"
    /\ Transient(r_last) /\ r_error = r_last
    /\ st_state = "raised" /\ st_error = r_last

\* An HTTP status error with a code in 400..499 other than 429.
ClientError(exc) ==
    exc.type = "HTTPStatusError" /\ exc.status \in 400..499 /\ exc.status # 429

\* C8: a non-retryable failure of a catalog call (HTTP 4xx other than 429),
\* on whichever attempt it occurs, ends the call: no further attempt is made
\* and that error is raised to the caller.
C8_ClientErrorEndsCall ==
    [][ /\ (BodyExecuted /\ ClientError(r_last')) =>
              (r_state' = "raised" /\ r_error' = r_last')
        /\ ClientError(r_last) => ~BodyExecuted
      ]_vars

\* C8 witness: create_playlist got a 4xx on its second attempt and raised it.
C8_Witness ==
    /\ r_fn = "create_playlist" /\ r_attempt = 2 /\ r_state = "raised"
    /\ ClientError(r_last) /\ r_error = r_last

\* The call on record and the call that stored entry have the same artist
\* and the same title after lower-casing and stripping both ends.
SameFolded(entry) ==
    /\ Strip(Lower(entry.artist)) = Strip(Lower(st_artist))
    /\ Strip(Lower(entry.title)) = Strip(Lower(st_title))

\* C15: a search_track call whose artist and title equal, after lower-casing
\* and stripping, those of an earlier call that stored its result issues no
\* query and returns the result that call stored.
C15_FoldedKeyShared ==
    st_state # "idle" =>
        \A key \in DOMAIN stored_by :
            SameFolded(stored_by[key]) =>
                \/ /\ st_state = "returned" /\ st_cached
                   /\ st_queries = <<>> /\ r_state = "idle"
                   /\ st_result = stored_by[key].result
                \/ /\ st_state = "returned" /\ ~st_cached
                   /\ stored_by[key] = [artist |-> st_artist, title |-> st_title,
                                        result |-> st_result]

\* C15 witness: 'Ab' / 'cd ' was searched and matched; the call for ' AB' /
\* 'CD' was answered from its entry.
C15_Witness ==
    /\ st_state = "returned" /\ st_cached
    /\ <<st_artist, st_title>> = TrackAbCdUpper
    /\ \E key \in DOMAIN stored_by :
          /\ <<stored_by[key].artist, stored_by[key].title>> = TrackAbCd
          /\ stored_by[key].result = st_result
          /\ st_result # None

(***************************************************************************)
(* add_tracks on lists of up to MaxUris URIs                               *)
(***************************************************************************)

InitAdd ==
    /\ ClientInit /\ RetryIdle /\ SearchIdle /\ MatchIdle /\ ImportIdle /\ SideIdle
    /\ at_state = "called"
    /\ at_uris \in {Uris(n) : n \in 0..MaxUris}
    /\ at_i = 0 /\ at_added = 0 /\ at_failed = <<>>
    /\ at_chunks = <<>> /\ at_outcomes = <<>>

NextAdd ==
    \/ AddTracksBegin
    \/ ExecuteBody(AddFailures, {})
    \/ ChunkReturned
    \/ ChunkRaised

SpecAdd == InitAdd /\ [][NextAdd]_vars

\* C5: add_tracks on n URIs submits ceil(n/100) chunks in input order; each
\* is a consecutive slice of at most 100 URIs, every chunk but the last has
\* exactly 100, and the chunks concatenated are the input list.
C5_Chunking ==
    LET n == Len(at_uris)
        count == Len(at_chunks)
    IN  /\ \A k \in 1..count :
              /\ Len(at_chunks[k]) \in 1..100
              /\ k < count => Len(at_chunks[k]) = 100
              /\ at_chunks[k] =
                    SubSeq(at_uris, 100 * (k - 1) + 1, 100 * (k - 1) + Len(at_chunks[k]))
        /\ at_state = "returned" =>
              /\ count = (n + 99) \div 100
              /\ Flatten(at_chunks) = at_uris

\* C5 witness: 250 URIs were submitted as chunks of 100, 100 and 50.
C5_Witness ==
    /\ at_state = "returned"
    /\ Len(at_uris) = 250
    /\ [k \in DOMAIN at_chunks |-> Len(at_chunks[k])] = <<100, 100, 50>>

\* C6: add_tracks does not raise when a chunk fails: every later chunk is
\* still submitted, failed holds exactly the URIs of the failed chunks, in
\* order, and added counts the URIs of the chunks that succeeded.
C6_ChunkFailureNonFatal ==
    /\ at_state \in {"idle", "called", "running", "returned"}
    /\ at_failed =
          Flatten([k \in DOMAIN at_outcomes |->
                      IF at_outcomes[k] THEN <<>> ELSE at_chunks[k]])
    /\ at_added =
          Len(Flatten([k \in DOMAIN at_outcomes |->
                          IF at_outcomes[k] THEN at_chunks[k] ELSE <<>>]))
    /\ at_state = "returned" =>
          /\ Len(at_outcomes) = Len(at_chunks)
          /\ Len(at_chunks) = (Len(at_uris) + 99) \div 100

\* C6 witness: the first and the third chunk failed, the second was added.
C6_Witness ==
    /\ at_state = "returned"
    /\ at_outcomes = <<FALSE, TRUE, FALSE>>
    /\ at_added = 100
    /\ Len(at_failed) = Len(at_uris) - 100

(***************************************************************************)
(* run_import on a parsed page                                             *)
(***************************************************************************)

InitImport ==
    /\ ClientInit /\ RetryIdle /\ SearchIdle /\ AddIdle /\ MatchIdle /\ SideIdle
    /\ parsed \in Pages
    /\ keep_unmatched = FALSE
    /\ ri_state = "mapping" /\ ri_write = FALSE
    /\ mp_block = 1 /\ mp_track = 1
    /\ mapped_blocks = <<>> /\ mapped_tracks = <<>> /\ misses = <<>>
    /\ mp_calls = <<>> /\ mp_results = <<>>
    /\ mp_error = NoOutcome /\ mp_return = None
    /\ creation = None /\ artifact = None /\ printed = None

NextImport ==
    \/ MapperCall
    \/ ExecuteBody(ImportFailures, ImportResponses)
    \/ SearchReturned
    \/ SearchRaised
    \/ MapperResult
    \/ MapperRaised
    \/ MapperBlockEnd
    \/ MapperReturn
    \/ CreatePlaylists
    \/ WriteArtifact

SpecImport == InitImport /\ [][NextImport]_vars

\* The number of tracks of the blocks before block b.
Offset(b) == Len(Flatten([c \in 1..(b - 1) |-> parsed[c].tracks]))

\* The input tracks in block-major, track-minor order, with their blocks.
FlatTracks ==
    Flatten([b \in DOMAIN parsed |->
                [t \in DOMAIN parsed[b].tracks |->
                    [block |-> parsed[b], track |-> parsed[b].tracks[t]]]])

\* The positions, in input order, of the tracks of block b that search_track
\* has returned a match for, and of all tracks it has returned None for.
MatchedIn(b) ==
    SelectSeq([t \in DOMAIN parsed[b].tracks |-> t],
              LAMBDA t : /\ Offset(b) + t <= Len(mp_results)
                         /\ mp_results[Offset(b) + t] # None)
MissedAt ==
    SelectSeq([k \in DOMAIN mp_results |-> k], LAMBDA k : mp_results[k] = None)

\* The mapped tracks of block b: of the block in progress when b is that
\* block, of the mapped block else.
MappedOf(b) == IF b <= Len(mapped_blocks) THEN mapped_blocks[b].tracks ELSE mapped_tracks

\* The mapper has returned.
MapperDone == ri_state \in {"mapped", "created", "done"}

\* C9: the mapper calls search_track once per track, one at a time, in
\* block-major track-minor order; there is one mapped block per input block
\* in input order, also for a block whose tracks all miss; mapped tracks keep
\* their input order and misses are in the order they were encountered.
C9_MapperOrder ==
    ri_state # "idle" =>
        /\ Len(mp_calls) <= Len(FlatTracks)
        /\ \A k \in DOMAIN mp_calls :
              mp_calls[k] = <<FlatTracks[k].track.artist, FlatTracks[k].track.title>>
        /\ Len(mp_calls) - Len(mp_results) \in {0, 1}
        /\ Len(mapped_blocks) <= Len(parsed)
        /\ \A b \in DOMAIN mapped_blocks :
              /\ mapped_blocks[b].title = parsed[b].title
              /\ mapped_blocks[b].context = parsed[b].context
        /\ \A b \in DOMAIN parsed :
              b <= Len(mapped_blocks) + 1 =>
                 [i \in DOMAIN MappedOf(b) |-> <<MappedOf(b)[i].artist, MappedOf(b)[i].title>>]
                    = [i \in DOMAIN MatchedIn(b) |->
                          <<parsed[b].tracks[MatchedIn(b)[i]].artist,
                            parsed[b].tracks[MatchedIn(b)[i]].title>>]
        /\ [i \in DOMAIN misses |-> <<misses[i].artist, misses[i].title>>]
              = [i \in DOMAIN MissedAt |->
                    <<FlatTracks[MissedAt[i]].track.artist,
                      FlatTracks[MissedAt[i]].track.title>>]
        /\ MapperDone =>
              /\ Len(mp_calls) = Len(FlatTracks)
              /\ Len(mp_results) = Len(FlatTracks)
              /\ Len(mapped_blocks) = Len(parsed)

\* C9 witness: the mapper returned two blocks for two blocks; the first is
\* empty because both of its tracks missed, the second has a mapped track.
C9_Witness ==
    /\ ri_state = "mapped"
    /\ Len(parsed) = 2
    /\ Len(parsed[1].tracks) = 2
    /\ mapped_blocks[1].tracks = <<>>
    /\ mapped_blocks[2].tracks # <<>>
    /\ Len(misses) >= 2

\* The number of mapped tracks so far.
MappedCount ==
    Len(Flatten([b \in DOMAIN mapped_blocks |-> mapped_blocks[b].tracks]))
        + Len(mapped_tracks)

\* C10: every input track has exactly one outcome: a mapped-track record in
\* its block (its artist, title, album and source_line with the uri and url
\* of the match) or a MissRecord (block title, artist, title); mapped tracks
\* plus misses are the input tracks, and run_import writes the misses
\* unchanged into the artifact and prints their number.
C10_OneOutcomePerTrack ==
    ri_state # "idle" =>
        /\ MappedCount + Len(misses) = Len(mp_results)
        /\ \A b \in DOMAIN parsed :
              b <= Len(mapped_blocks) + 1 =>
                 /\ Len(MappedOf(b)) = Len(MatchedIn(b))
                 /\ \A i \in DOMAIN MatchedIn(b) :
                       LET t == MatchedIn(b)[i]
                           track == parsed[b].tracks[t]
                           found == mp_results[Offset(b) + t][1]
                       IN  MappedOf(b)[i] =
                              [artist |-> track.artist, title |-> track.title,
                               album |-> track.album, source_line |-> track.source_line,
                               spotify_uri |-> found.uri, spotify_url |-> found.url]
        /\ Len(misses) = Len(MissedAt)
        /\ \A i \in DOMAIN MissedAt :
              misses[i] = [block |-> FlatTracks[MissedAt[i]].block.title,
                           artist |-> FlatTracks[MissedAt[i]].track.artist,
                           title |-> FlatTracks[MissedAt[i]].track.title]
        /\ MapperDone => MappedCount + Len(misses) = Len(FlatTracks)
        /\ ri_state = "done" =>
              /\ artifact # None /\ artifact[1].misses = misses
              /\ artifact[1].blocks = mapped_blocks
              /\ printed # None /\ printed[1].misses = Len(misses)

\* C10 witness: run_import finished a page of which one track was mapped
\* and another missed; the artifact holds the miss and its number was printed.
C10_Witness ==
    /\ ri_state = "done"
    /\ MappedCount >= 1
    /\ Len(misses) >= 1
    /\ artifact[1].misses = misses
    /\ printed[1].misses = Len(misses)

\* The mapper is where search_track has raised and nothing has caught it.
SearchTrackRaised == ri_state \in {"awaiting", "raised"} /\ st_state = "raised"

\* C11: when search_track raises for a track (a failed token refresh, a
\* permanent 4xx, or a transient error on the third attempt), the mapper
\* raises that same error: no MissRecord and no mapped record is made for the
\* track, search_track is called for no later track, and the mapper returns
\* no (mapped_blocks, misses), so that run_import writes nothing.
C11_SearchErrorAborts ==
    [][ /\ SearchTrackRaised' =>
              /\ Len(mp_results') = Len(mp_calls') - 1
              /\ Len(misses') = Len(MissedAt')
              /\ MappedCount' + Len(misses') = Len(mp_results')
              /\ mp_return' = None /\ creation' = None /\ artifact' = None
              /\ ri_state' = "raised" => mp_error' = st_error'
        /\ st_state = "raised" =>
              /\ ri_state' = "raised" /\ st_state' = "raised"
              /\ mp_error' = r_error /\ mp_error' # NoOutcome
              /\ mp_calls' = mp_calls /\ misses' = misses
              /\ mapped_blocks' = mapped_blocks /\ mapped_tracks' = mapped_tracks
      ]_vars

\* C11 witness: the first track was mapped, search_track raised a transient
\* error on the third attempt for the second, and the mapper raised it with
\* a third track never searched for.
C11_Witness ==
    /\ ri_state = "raised"
    /\ mp_error = Failure("request", "HTTPStatusError", 503)
    /\ r_attempt = 3
    /\ Len(mp_calls) = 2 /\ Len(mp_results) = 1 /\ mp_results[1] # None
    /\ Len(FlatTracks) > 2
    /\ misses = <<>>

\* The search_track call on record searched and no response of it had an
\* accepted match.
NoQueryMatched ==
    /\ st_state = "returned" /\ ~st_cached
    /\ \A k \in DOMAIN st_responses : AcceptedIn(k) = None

\* C16: when none of the fallback queries yields an accepted match,
\* search_track has issued exactly three queries, returns None and has
\* stored None under the key, and the mapper appends the MissRecord of the
\* track and no mapped record.
C16_ExhaustedIsMiss ==
    (ri_state # "idle" /\ NoQueryMatched) =>
        /\ Len(st_queries) = 3 /\ Len(st_responses) = 3
        /\ st_result = None
        /\ CallKey \in DOMAIN search_cache /\ search_cache[CallKey] = None
        /\ Len(mp_results) = Len(mp_calls) =>
              /\ mp_results[Len(mp_results)] = None
              /\ misses # <<>>
              /\ misses[Len(misses)] =
                    [block |-> FlatTracks[Len(mp_results)].block.title,
                     artist |-> st_artist, title |-> st_title]
              /\ <<st_artist, st_title>> =
                    <<FlatTracks[Len(mp_results)].track.artist,
                      FlatTracks[Len(mp_results)].track.title>>
              /\ Len(misses) = Len(MissedAt)
              /\ MappedCount = Len(mp_results) - Len(misses)

\* C16 witness: three queries were answered with candidates of low
\* similarity; None is in the cache and the track is the last miss.
C16_Witness ==
    /\ ri_state = "mapping"
    /\ NoQueryMatched
    /\ Len(st_queries) = 3
    /\ \A k \in DOMAIN st_responses : st_responses[k] # <<>>
    /\ search_cache[CallKey] = None
    /\ Len(mp_results) = Len(mp_calls)
    /\ misses[Len(misses)].title = st_title

(***************************************************************************)
(* remap_playlist: the mapper run again with keep_unmatched                *)
(***************************************************************************)

\* The stored artifacts of the slug: none, or one with its playlists.
ExistingArtifacts ==
    {None, Some([playlists |-> <<"playlist-1">>, master_playlist |-> Some("master")])}

\* The artifact remap_playlist builds and saves.
remap_artifact(blocks, missed, existing) ==
    [blocks |-> blocks,
     playlists |-> IF existing # None THEN existing[1].playlists ELSE <<>>,
     master_playlist |-> IF existing # None THEN existing[1].master_playlist ELSE None,
     misses |-> missed,
     failed_tracks |-> <<>>]

\* remap_playlist after the mapper has returned: the artifact is built from
\* the mapped blocks, the misses and the playlists of the stored artifact,
\* and saved.
RemapSave ==
    /\ ri_state = "mapped"
    /\ \E existing \in ExistingArtifacts :
          artifact' = Some(remap_artifact(mapped_blocks, misses, existing))
    /\ ri_state' = "done"
    /\ UNCHANGED <<ri_write, parsed, keep_unmatched, mp_block, mp_track, mapped_blocks,
                   mapped_tracks, misses, mp_calls, mp_results, mp_error, mp_return,
                   creation, printed>>
    /\ UNCHANGED <<auxVars, clientVars, retryVars, searchVars, addVars, historyVars>>

InitRemap ==
    /\ ClientInit /\ RetryIdle /\ SearchIdle /\ AddIdle /\ MatchIdle /\ SideIdle
    /\ parsed \in Pages
    /\ keep_unmatched = TRUE
    /\ ri_state = "mapping" /\ ri_write = FALSE
    /\ mp_block = 1 /\ mp_track = 1
    /\ mapped_blocks = <<>> /\ mapped_tracks = <<>> /\ misses = <<>>
    /\ mp_calls = <<>> /\ mp_results = <<>>
    /\ mp_error = NoOutcome /\ mp_return = None
    /\ creation = None /\ artifact = None /\ printed = None

NextRemap ==
    \/ MapperCall
    \/ ExecuteBody(ImportFailures, ImportResponses)
    \/ SearchReturned
    \/ SearchRaised
    \/ MapperResult
    \/ MapperRaised
    \/ MapperBlockEnd
    \/ MapperReturn
    \/ RemapSave

SpecRemap == InitRemap /\ [][NextRemap]_vars

\* The number of tracks of block b that search_track has returned for.
ReturnedIn(b) ==
    IF Len(mp_results) <= Offset(b) THEN 0
    ELSE IF Len(mp_results) - Offset(b) >= Len(parsed[b].tracks)
    THEN Len(parsed[b].tracks)
    ELSE Len(mp_results) - Offset(b)

\* The original fields of a track, without spotify_uri and spotify_url.
OriginalFields(track) ==
    [artist |-> track.artist, title |-> track.title,
     album |-> track.album, source_line |-> track.source_line]

MaxThreads == 2
MaxTokenCalls == 2

Threads == 1..MaxThreads

\* The seconds before expiry from which the stored token counts as expired,
\* and the lifetime of a token whose payload has no expires_in.
ExpiryMargin == 30
DefaultExpiresIn == 3600

\* The instants the clock is read at.
Instants == {0, 1, 3569, 3570}

\* The payloads of the token endpoint: a non-empty access_token and an
\* optional expires_in.
Payload(token, expires_in) == [access_token |-> token, expires_in |-> expires_in]
Payloads ==
    {Payload(token, expires_in) :
        token \in {"access-1", "access-2"}, expires_in \in {None, Some(20), Some(31)}}

\* The exceptions of the refresh request.
RefreshFailures ==
    {Failure("token", "HTTPStatusError", 400), Failure("token", "ConnectError", 0)}

\* Mutant of token_valid: the token counts as valid until expires_at.
token_valid_no_margin(token, expires, t) == token # None /\ t < expires

\* self._access_token and time.time() < self._expires_at - 30
token_valid(token, expires, t) == token # None /\ t < expires - ExpiryMargin

\* Mutant of expiry_of: the payload's expires_in is ignored.
expiry_of_default(payload, t) == t + DefaultExpiresIn

\* time.time() + float(payload.get("expires_in", 3600))
expiry_of(payload, t) ==
    t + (IF payload.expires_in = None THEN DefaultExpiresIn ELSE payload.expires_in[1])

\* Mutant of lock_acquire: the lock is taken although a thread holds it.
lock_acquire_unguarded(lock, t) == TRUE

\* `with self._token_lock` lets thread t in: the lock is free.
lock_acquire(lock, t) == lock = 0

\* Mutant of lock_release: the lock stays with the thread.
lock_release_held(lock, t) == lock

\* The end of the with block, by return or by exception, in thread t: the
\* lock is free.
lock_release(lock, t) == 0

\* A thread that is not calling _get_access_token, and one that has called
\* it and has not passed `with self._token_lock` yet.
IdleCaller ==
    [pc |-> "idle", check |-> None, sent |-> FALSE, response |-> None,
     result |-> None, error |-> NoOutcome, waited |-> None]
WaitingCaller == [IdleCaller EXCEPT !.pc = "waiting"]

\* Thread t calls _get_access_token.
GetAccessTokenCall(t, max_calls) ==
    /\ callers[t].pc \in {"idle", "returned", "raised"}
    /\ token_calls < max_calls
    /\ token_calls' = token_calls + 1
    /\ callers' = [callers EXCEPT ![t] = WaitingCaller]
    /\ UNCHANGED <<clock, expires_at, token_lock, refreshes>>
    /\ UNCHANGED <<clientVars, tokenFrame>>

\* Thread t enters the with block and tests the stored token: a valid token
\* is returned and the lock released, else the refresh request is sent with
\* the lock held.
GetAccessTokenEnter(t) ==
    /\ callers[t].pc = "waiting"
    /\ lock_acquire(token_lock, t)
    /\ LET seen == [token |-> access_token, expires_at |-> expires_at, now |-> clock]
       IN  IF token_valid(access_token, expires_at, clock)
           THEN /\ callers' = [callers EXCEPT ![t].pc = "returned",
                                              ![t].check = Some(seen),
                                              ![t].result = access_token]
                /\ UNCHANGED <<token_lock, refreshes>>
           ELSE /\ callers' = [callers EXCEPT ![t].pc = "refreshing",
                                              ![t].check = Some(seen),
                                              ![t].sent = TRUE]
                /\ token_lock' = t
                /\ refreshes' = Append(refreshes, [by |-> t, at |-> clock])
    /\ UNCHANGED <<clock, expires_at, token_calls>>
    /\ UNCHANGED <<clientVars, tokenFrame>>

\* The callers of the other threads after thread t stored the token of
\* payload: a thread that was in its call meanwhile has it on record.
after_refresh(others, t, payload, sent_at, expires) ==
    [u \in DOMAIN others |->
        IF u # t /\ others[u].pc \in {"waiting", "refreshing"}
        THEN [others[u] EXCEPT !.waited = Some([token |-> payload.access_token,
                                                 lifetime |-> expires - sent_at,
                                                 expires_at |-> expires])]
        ELSE others[u]]

\* The refresh request of thread t is answered: the token and its expiry
\* are stored, the lock is released and the token returned.
GetAccessTokenRefreshed(t, payloads) ==
    /\ callers[t].pc = "refreshing"
    /\ \E payload \in payloads :
          /\ access_token' = Some(payload.access_token)
          /\ expires_at' = expiry_of(payload, clock)
          /\ callers' = after_refresh([callers EXCEPT ![t].pc = "returned",
                                                      ![t].response = Some(payload),
                                                      ![t].result = Some(payload.access_token)],
                                      t, payload, clock, expiry_of(payload, clock))
    /\ token_lock' = lock_release(token_lock, t)
    /\ UNCHANGED <<clock, refreshes, token_calls, search_cache>>
    /\ UNCHANGED tokenFrame

\* Mutant of GetAccessTokenRaised: the failed refresh discards the stored
\* token.
GetAccessTokenRaisedClears(t, failures) ==
    /\ callers[t].pc = "refreshing"
    /\ \E exc \in failures :
          callers' = [callers EXCEPT ![t].pc = "raised", ![t].error = exc]
    /\ token_lock' = 0
    /\ tl_blocked' = tl_blocked \cup {u \in DOMAIN callers : callers[u].pc = "waiting"}
    /\ access_token' = None
    /\ expires_at' = 0
    /\ UNCHANGED <<clock, refreshes, token_calls, search_cache>>
    /\ UNCHANGED tokenSide

\* The refresh request of thread t fails: the exception leaves the with
\* block, which releases the lock, and the stored token is as it was.
GetAccessTokenRaised(t, failures) ==
    /\ callers[t].pc = "refreshing"
    /\ \E exc \in failures :
          callers' = [callers EXCEPT ![t].pc = "raised", ![t].error = exc]
    /\ token_lock' = lock_release(token_lock, t)
    /\ tl_blocked' = tl_blocked \cup {u \in DOMAIN callers : callers[u].pc = "waiting"}
    /\ UNCHANGED <<clock, expires_at, refreshes, token_calls>>
    /\ UNCHANGED <<clientVars, tokenSide>>

\* Time passes.
Tick(instants) ==
    /\ \E t \in instants : t > clock /\ clock' = t
    /\ UNCHANGED <<expires_at, token_lock, callers, refreshes, token_calls>>
    /\ UNCHANGED <<clientVars, tokenFrame>>

InitToken ==
    /\ ClientFields
    /\ clock = 0 /\ refreshes = <<>> /\ token_calls = 0
    /\ callers = [t \in Threads |-> IdleCaller]
    /\ calls_made = 0 /\ sequences = EmptyDict /\ stored_by = EmptyDict
    /\ workers = <<>>
    /\ RetryIdle /\ SearchIdle /\ AddIdle /\ MatchIdle /\ ImportIdle /\ SideIdle

NextToken ==
    \/ \E t \in Threads : GetAccessTokenCall(t, MaxTokenCalls)
    \/ \E t \in Threads : GetAccessTokenEnter(t)
    \/ \E t \in Threads : GetAccessTokenRefreshed(t, Payloads)
    \/ \E t \in Threads : GetAccessTokenRaised(t, RefreshFailures)
    \/ Tick(Instants)

SpecToken == InitToken /\ [][NextToken]_vars

\* Thread t passes `with self._token_lock` in the step, and its refresh
\* request is answered in the step.
Entered(t) == callers[t].pc = "waiting" /\ callers'[t].pc # "waiting"
Refreshed(t) == callers[t].pc = "refreshing" /\ callers'[t].pc = "returned"

\* C12: _get_access_token sends a refresh request if and only if the client
\* holds no access token or the time is at or past expires_at - 30; else it
\* returns the stored token and sends nothing.  After a successful refresh
\* the stored token is the one of the payload and expires_at is the time of
\* the refresh plus expires_in, 3600 when the payload has none.
C12_RefreshWhenStale ==
    [][ /\ \A t \in Threads :
              /\ Entered(t) =>
                    IF access_token = None \/ clock >= expires_at - 30
                    THEN /\ callers'[t].pc = "refreshing"
                         /\ refreshes' = Append(refreshes, [by |-> t, at |-> clock])
                         /\ access_token' = access_token /\ expires_at' = expires_at
                    ELSE /\ callers'[t].pc = "returned"
                         /\ callers'[t].result = access_token
                         /\ refreshes' = refreshes
                         /\ access_token' = access_token /\ expires_at' = expires_at
              /\ Refreshed(t) =>
                    LET payload == callers'[t].response[1]
                    IN  /\ access_token' = Some(payload.access_token)
                        /\ callers'[t].result = Some(payload.access_token)
                        /\ expires_at' = clock + (IF payload.expires_in = None THEN 3600
                                                  ELSE payload.expires_in[1])
        /\ refreshes' # refreshes => \E t \in Threads : Entered(t)
        /\ (access_token' # access_token \/ expires_at' # expires_at) =>
              \E t \in Threads : Refreshed(t)
      ]_vars

\* C12 witness: a call made exactly at expires_at - 30 of the stored token
\* has sent a refresh request.
C12_Witness ==
    \E u \in Threads :
        /\ callers[u].pc = "refreshing"
        /\ callers[u].check[1].now = 3570 /\ callers[u].check[1].expires_at = 3600
        /\ callers[u].check[1].token # None
        /\ Len(refreshes) = 2

\* Thread u was in its call when another thread's refresh stored a token.
Coalesced(u) == callers[u].waited # None

\* C13 as stated: a caller that was blocked on the lock while the refresh of
\* another thread succeeded with expires_in above 30 seconds sends no refresh
\* request of its own and returns the token of that refresh.
C13_SingleRefresh ==
    \A u \in Threads :
        (Coalesced(u) /\ callers[u].waited[1].lifetime > 30) =>
            /\ ~callers[u].sent
            /\ callers[u].pc = "returned" => callers[u].result = Some(callers[u].waited[1].token)

\* C13 as amended: at most one thread is in a refresh at a time, and a caller
\* that was blocked on the lock while the refresh of another thread succeeded
\* and that tests the token before the new expires_at - 30 sends no refresh
\* request of its own and returns the token of that refresh.
C13_SingleRefreshWhileFresh ==
    /\ Cardinality({t \in Threads : callers[t].pc = "refreshing"}) <= 1
    /\ \A t \in Threads : callers[t].pc = "refreshing" <=> token_lock = t
    /\ \A u \in Threads :
          (/\ Coalesced(u)
           /\ callers[u].check # None
           /\ callers[u].check[1].now < callers[u].waited[1].expires_at - 30) =>
              /\ ~callers[u].sent
              /\ callers[u].pc = "returned"
              /\ callers[u].result = Some(callers[u].waited[1].token)

\* C13 witness: two threads called with no token stored; one request was
\* sent, and the thread that was blocked returned the token of that refresh.
C13_Witness ==
    /\ Len(refreshes) = 1
    /\ token_calls = 2
    /\ \E t, u \in Threads :
          /\ t # u
          /\ callers[t].pc = "returned" /\ callers[t].sent
          /\ callers[t].check[1].token = None
          /\ callers[u].pc = "returned" /\ ~callers[u].sent /\ Coalesced(u)
          /\ callers[u].result = callers[t].result

(***************************************************************************)
(* search_track called by the threads that share one client.  The calls    *)
(* of _search are not followed into the retry decorator here: each of them *)
(* returns an item list or raises.                                         *)
(***************************************************************************)

\* A thread that is not calling search_track.
IdleWorker ==
    [pc |-> "idle", artist |-> <<>>, title |-> <<>>, queries |-> <<>>,
     responses |-> <<>>, cached |-> FALSE, result |-> None, error |-> NoOutcome]

\* Thread t calls search_track(artist, title): the cached result is returned
\* when the key is in the cache, else the first query is passed to _search.
WorkerCall(t, tracks) ==
    /\ workers[t].pc = "idle"
    /\ \E track \in tracks :
          workers' =
              [workers EXCEPT ![t] =
                  IF cache_hit(search_cache, cache_key(track[1], track[2]))
                  THEN [IdleWorker EXCEPT !.pc = "returned",
                                          !.artist = track[1], !.title = track[2],
                                          !.cached = TRUE,
                                          !.result = search_cache[cache_key(track[1], track[2])]]
                  ELSE [IdleWorker EXCEPT !.pc = "running",
                                          !.artist = track[1], !.title = track[2],
                                          !.queries = <<search_queries(track[1], track[2])[1]>>]]
    /\ UNCHANGED <<search_cache, sequences, stored_by>>
    /\ UNCHANGED workerFrame

\* search_track of thread t after _best_match returned best on items: an
\* accepted match is stored and returned, else the next query is passed to
\* _search, and after the last query None is stored and returned.
worker_step(t, w, items, best) ==
    IF best # None \/ Len(w.queries) >= Len(search_queries(w.artist, w.title))
    THEN /\ search_cache' = dict_set(search_cache, cache_key(w.artist, w.title), best)
         /\ sequences' = dict_set(sequences, cache_key(w.artist, w.title),
                            IF cache_key(w.artist, w.title) \in DOMAIN sequences
                            THEN sequences[cache_key(w.artist, w.title)] + 1 ELSE 1)
         /\ stored_by' = dict_set(stored_by, cache_key(w.artist, w.title),
                                  [artist |-> w.artist, title |-> w.title,
                                   result |-> best])
         /\ workers' = [workers EXCEPT ![t].pc = "returned",
                                       ![t].responses = Append(w.responses, items),
                                       ![t].result = best]
    ELSE /\ workers' = [workers EXCEPT
                           ![t].responses = Append(w.responses, items),
                           ![t].queries =
                               Append(w.queries,
                                      search_queries(w.artist, w.title)[Len(w.queries) + 1])]
         /\ UNCHANGED <<search_cache, sequences, stored_by>>

\* _search returned items to thread t.
WorkerSearchReturned(t, responses) ==
    /\ workers[t].pc = "running"
    /\ \E items \in responses :
          worker_step(t, workers[t], items,
                      best_match(items, normalize(workers[t].artist),
                                 normalize(workers[t].title)))
    /\ UNCHANGED workerFrame

\* _search raised in thread t: search_track raises, the cache is as it was.
WorkerSearchRaised(t, failures) ==
    /\ workers[t].pc = "running"
    /\ \E exc \in failures :
          workers' = [workers EXCEPT ![t].pc = "raised", ![t].error = exc]
    /\ UNCHANGED <<search_cache, sequences, stored_by>>
    /\ UNCHANGED workerFrame

WorkerTracks == {TrackAbCd, TrackPunct}
WorkerResponses == {<<>>, <<ItemExact>>, <<ItemHalf>>}
WorkerFailures == {Failure("request", "HTTPStatusError", 400)}

InitShared ==
    /\ ClientFields
    /\ clock = 0 /\ callers = <<>> /\ refreshes = <<>> /\ token_calls = 0
    /\ calls_made = 0 /\ sequences = EmptyDict /\ stored_by = EmptyDict
    /\ workers = [t \in Threads |-> IdleWorker]
    /\ RetryIdle /\ SearchIdle /\ AddIdle /\ MatchIdle /\ ImportIdle /\ SideIdle

NextShared ==
    \/ \E t \in Threads : WorkerCall(t, WorkerTracks)
    \/ \E t \in Threads : WorkerSearchReturned(t, WorkerResponses)
    \/ \E t \in Threads : WorkerSearchRaised(t, WorkerFailures)

SpecShared == InitShared /\ [][NextShared]_vars

\* Threads t and u have called search_track with the same (artist, title).
SamePair(t, u) ==
    /\ t # u
    /\ workers[t].pc # "idle" /\ workers[u].pc # "idle"
    /\ workers[t].artist = workers[u].artist
    /\ workers[t].title = workers[u].title

\* C14: the cache of a shared client is guarded: of two threads that call
\* search_track with the same (artist, title) at most one issues a search
\* sequence, no key has more than one search sequence, and both get the same
\* result.
C14_CacheGuarded ==
    /\ \A key \in DOMAIN sequences : sequences[key] <= 1
    /\ \A t, u \in Threads :
          SamePair(t, u) =>
              /\ ~(workers[t].queries # <<>> /\ workers[u].queries # <<>>)
              /\ (workers[t].pc = "returned" /\ workers[u].pc = "returned") =>
                    workers[t].result = workers[u].result

(***************************************************************************)
(* _normalize as a pure function: the input is drawn in the initial state  *)
(* and the one action applies it, first to the input and then to its own   *)
(* output.                                                                 *)
(***************************************************************************)

\* The longest string _normalize is applied to.
MaxTextLen == 3

\* Letters of both cases, a digit, the two kinds of whitespace, punctuation,
\* a letter with a diacritic, a combining mark and a letter that NFKD leaves
\* as it is.
TextAlphabet == {"a", "B", "1", " ", "\t", "-", E_ACUTE, COMBINING_ACUTE, O_SLASH}

InitNormalize ==
    /\ nz_text \in SeqsUpTo(TextAlphabet, MaxTextLen)
    /\ nz_outputs = <<>>
    /\ ClientInit /\ RetryIdle /\ SearchIdle /\ AddIdle /\ MatchIdle /\ ImportIdle
    /\ CrawlIdle /\ ReplayIdle /\ RoutesIdle /\ ProcessIdle /\ ReprocessIdle
    /\ PipelineIdle /\ RaisedIdle /\ BlockedIdle

ApplyNormalize ==
    /\ Len(nz_outputs) < 2
    /\ nz_outputs' = Append(nz_outputs,
                            normalize(IF nz_outputs = <<>> THEN nz_text ELSE nz_outputs[1]))
    /\ UNCHANGED nz_text
    /\ UNCHANGED normFrame

NextNormalize == ApplyNormalize

SpecNormalize == InitNormalize /\ [][NextNormalize]_vars

\* C17: _normalize(_normalize(s)) = _normalize(s), and the output of
\* _normalize has only the characters a-z, 0-9 and space, no space at either
\* end and no two spaces in a row.
C17_NormalizeIdempotent ==
    /\ \A k \in DOMAIN nz_outputs :
          LET out == nz_outputs[k]
              allowed == {Chars("abcdefghijklmnopqrstuvwxyz0123456789 ")[i] : i \in 1..37}
          IN  /\ \A i \in DOMAIN out : out[i] \in allowed
              /\ out # <<>> => (out[1] # " " /\ out[Len(out)] # " ")
              /\ \A i \in 1..(Len(out) - 1) : ~(out[i] = " " /\ out[i + 1] = " ")
    /\ Len(nz_outputs) = 2 => nz_outputs[2] = nz_outputs[1]

\* C17 witness: 'B', a tab and a hyphen became 'b' with nothing around it,
\* and the second application returned the same.
C17_Witness ==
    /\ nz_text = <<"B", "\t", "-">>
    /\ nz_outputs = << <<"b">>, <<"b">> >>

(***************************************************************************)
(* run_crawl: the links of an index page processed one after the other     *)
(***************************************************************************)

\* The most links an index page has.
MaxLinks == 3

ExtractedLink(url, description) == [url |-> url, description |-> description]

LinkFail == ExtractedLink("https://example.com/fail", "Will fail")
LinkSuccess == ExtractedLink("https://example.com/success", "Will succeed")

\* The index pages and the values of max_links (None for unlimited).
IndexPages == SeqsUpTo({LinkFail, LinkSuccess}, MaxLinks)
MaxLinksArgs == {None} \cup {Some(n) : n \in 0..(MaxLinks + 1)}

\* What run_dev or run_import does for a link: it returns whether the link
\* was processed, or it raises an Exception with a text.
Returned(was_processed) ==
    [raised |-> FALSE, was_processed |-> was_processed, text |-> ""]
RaisedWith(text) == [raised |-> TRUE, was_processed |-> FALSE, text |-> text]
LinkOutcomes ==
    {Returned(TRUE), Returned(FALSE), RaisedWith("Simulated failure"), RaisedWith("")}

\* slugify_url on the URLs of the model.
slugify_url(url) ==
    CASE url = "https://example.com/fail" -> "example-com-fail"
      [] url = "https://example.com/success" -> "example-com-success"
      [] OTHER -> "page"

\* seq[:stop]
slice_to(seq, stop) ==
    IF stop >= 0
    THEN SubSeq(seq, 1, IF stop < Len(seq) THEN stop ELSE Len(seq))
    ELSE SubSeq(seq, 1, IF Len(seq) + stop > 0 THEN Len(seq) + stop ELSE 0)

\* The entry of one link: the body of the loop up to processed.append.
link_result(link, dev, outcome) ==
    IF outcome.raised
    THEN [url |-> link.url, description |-> link.description,
          status |-> "failed", error |-> outcome.text]
    ELSE [url |-> link.url, description |-> link.description,
          status |-> IF outcome.was_processed THEN "success" ELSE "skipped",
          mode |-> IF dev THEN "dev" ELSE "import",
          artifact |-> <<IF dev THEN "data/parsed" ELSE "data/spotify",
                         slugify_url(link.url)>>]

\* Mutant of process_link: a failed link ends the loop.
process_link_abort(entries, rest, dev, outcome) ==
    [processed |-> Append(entries, link_result(Head(rest), dev, outcome)),
     rest |-> IF outcome.raised THEN <<>> ELSE Tail(rest)]

\* One iteration of the loop: the entry is appended whatever happened and
\* the loop goes on with the next link.
process_link(entries, rest, dev, outcome) ==
    [processed |-> Append(entries, link_result(Head(rest), dev, outcome)),
     rest |-> Tail(rest)]

InitCrawl ==
    /\ ClientInit /\ RetryIdle /\ SearchIdle /\ AddIdle /\ MatchIdle /\ ImportIdle
    /\ NormIdle /\ ReplayIdle /\ RoutesIdle /\ ProcessIdle /\ ReprocessIdle
    /\ PipelineIdle /\ RaisedIdle /\ BlockedIdle
    /\ cr_state = "called"
    /\ cr_index \in IndexPages
    /\ max_links \in MaxLinksArgs
    /\ dev_mode \in BOOLEAN
    /\ links = <<>> /\ cr_rest = <<>> /\ processed = <<>> /\ cr_outcomes = <<>>
    /\ crawl_result = None

\* run_crawl up to the loop: the links are extracted and cut to max_links.
CrawlBegin ==
    /\ cr_state = "called"
    /\ LET found == IF max_links # None THEN slice_to(cr_index, max_links[1])
                    ELSE cr_index
       IN  /\ links' = found
           /\ cr_rest' = found
    /\ processed' = <<>>
    /\ cr_state' = "looping"
    /\ UNCHANGED <<cr_index, max_links, dev_mode, cr_outcomes, crawl_result>>
    /\ UNCHANGED crawlFrame

\* One iteration of the loop for the next link.
CrawlProcessLink(outcomes) ==
    /\ cr_state = "looping"
    /\ cr_rest # <<>>
    /\ \E outcome \in outcomes :
          LET after == process_link(processed, cr_rest, dev_mode, outcome)
          IN  /\ processed' = after.processed
              /\ cr_rest' = after.rest
              /\ cr_outcomes' = Append(cr_outcomes, outcome)
    /\ UNCHANGED <<cr_state, cr_index, max_links, dev_mode, links, crawl_result>>
    /\ UNCHANGED crawlFrame

\* After the loop the summary is written and returned.
CrawlFinish ==
    /\ cr_state = "looping"
    /\ cr_rest = <<>>
    /\ crawl_result' = Some([discovered_links |-> links, processed |-> processed])
    /\ cr_state' = "done"
    /\ UNCHANGED <<cr_index, max_links, dev_mode, links, cr_rest, processed, cr_outcomes>>
    /\ UNCHANGED crawlFrame

NextCrawl ==
    \/ CrawlBegin
    \/ CrawlProcessLink(LinkOutcomes)
    \/ CrawlFinish

SpecCrawl == InitCrawl /\ [][NextCrawl]_vars

\* The number of links run_crawl is to process.
CrawlCount ==
    IF max_links = None \/ max_links[1] >= Len(cr_index)
    THEN Len(cr_index) ELSE max_links[1]

\* C20: run_crawl processes the first max_links links of the index page
\* (all of them without max_links) in order, with exactly one entry per
\* link in processed in that order; a link whose processing raised has
\* status "failed" and the error text, and the links after it are processed
\* all the same; a processed link has status "success" and a link that was
\* already done "skipped".
C20_CrawlEntries ==
    cr_state \in {"looping", "done"} =>
        /\ Len(links) = CrawlCount
        /\ \A i \in DOMAIN links : links[i] = cr_index[i]
        /\ Len(processed) = Len(cr_outcomes)
        /\ Len(processed) + Len(cr_rest) = CrawlCount
        /\ \A i \in DOMAIN processed :
              /\ processed[i].url = cr_index[i].url
              /\ processed[i].description = cr_index[i].description
              /\ processed[i].status =
                    IF cr_outcomes[i].raised THEN "failed"
                    ELSE IF cr_outcomes[i].was_processed THEN "success"
                    ELSE "skipped"
              /\ cr_outcomes[i].raised =>
                    /\ "error" \in DOMAIN processed[i]
                    /\ processed[i].error = cr_outcomes[i].text
        /\ cr_state = "done" =>
              /\ Len(processed) = CrawlCount
              /\ crawl_result # None
              /\ crawl_result[1].processed = processed

\* C20 witness: of three links two were to be processed; the first raised
\* and is recorded as failed with its text, the second was processed after
\* it, and run_crawl returned the two entries.
C20_Witness ==
    /\ cr_state = "done"
    /\ cr_index = <<LinkFail, LinkSuccess, LinkSuccess>>
    /\ max_links = Some(2)
    /\ Len(processed) = 2
    /\ processed[1].status = "failed"
    /\ processed[1].error = "Simulated failure"
    /\ processed[2].status = "success"
    /\ processed[2].url = LinkSuccess.url

(***************************************************************************)
(* The parsed artifact: written by _serialize_parsed, read by run_replay   *)
(***************************************************************************)

\* JSON values: null and strings are tagged, an object is a record of
\* values and an array a sequence of them.
JNull == [type |-> "null"]
JString(s) == [type |-> "string", value |-> s]

\* Mutant of to_json: None is written as the empty string.
to_json_blank(v) == IF v = None THEN JString("") ELSE JString(v[1])

\* What json.dump writes for an Optional[str].
to_json(v) == IF v = None THEN JNull ELSE JString(v[1])

\* obj.get(key): None when the key is missing or its value is null.
json_get(obj, key) ==
    IF key \notin DOMAIN obj \/ obj[key] = JNull THEN None ELSE Some(obj[key].value)

\* The "blocks" of _serialize_parsed(parsed).
serialize_parsed(blocks) ==
    [b \in DOMAIN blocks |->
        [title |-> JString(blocks[b].title),
         context |-> to_json(blocks[b].context),
         tracks |->
            [t \in DOMAIN blocks[b].tracks |->
                [artist |-> JString(blocks[b].tracks[t].artist),
                 title |-> JString(blocks[b].tracks[t].title),
                 album |-> to_json(blocks[b].tracks[t].album),
                 source_line |-> to_json(blocks[b].tracks[t].source_line)]]]]

\* The blocks run_replay builds from the document.
replay_blocks(data) ==
    [b \in DOMAIN data |->
        TrackBlock(data[b].title.value,
                   json_get(data[b], "context"),
                   IF "tracks" \in DOMAIN data[b]
                   THEN [t \in DOMAIN data[b].tracks |->
                            Track(data[b].tracks[t].artist.value,
                                  data[b].tracks[t].title.value,
                                  json_get(data[b].tracks[t], "album"),
                                  json_get(data[b].tracks[t], "source_line"))]
                   ELSE <<>>)]

InitReplay ==
    /\ ClientInit
    /\ RetryIdle /\ SearchIdle /\ AddIdle /\ MatchIdle /\ ImportIdle
    /\ NormIdle /\ CrawlIdle /\ RoutesIdle /\ ProcessIdle /\ ReprocessIdle
    /\ PipelineIdle /\ RaisedIdle /\ BlockedIdle
    /\ rp_state = "parsed"
    /\ rp_parsed \in Pages
    /\ rp_data = <<>>
    /\ rp_page = <<>>

\* _process_url writes the parsed artifact.
WriteParsed ==
    /\ rp_state = "parsed"
    /\ rp_data' = serialize_parsed(rp_parsed)
    /\ rp_state' = "written"
    /\ UNCHANGED <<rp_parsed, rp_page>>
    /\ UNCHANGED replayFrame

\* run_replay reads it and builds the ParsedPage.
ReplayLoad ==
    /\ rp_state = "written"
    /\ rp_page' = replay_blocks(rp_data)
    /\ rp_state' = "loaded"
    /\ UNCHANGED <<rp_parsed, rp_data>>
    /\ UNCHANGED replayFrame

NextReplay ==
    \/ WriteParsed
    \/ ReplayLoad

SpecReplay == InitReplay /\ [][NextReplay]_vars

\* C21: the blocks run_replay builds from the document _serialize_parsed
\* produced have the block order, titles and contexts of the original and,
\* for every track, its artist, title, album and source_line; an absent
\* optional field stays absent.
C21_ParsedRoundTrip ==
    rp_state = "loaded" =>
        /\ Len(rp_page) = Len(rp_parsed)
        /\ \A b \in DOMAIN rp_parsed :
              /\ rp_page[b].title = rp_parsed[b].title
              /\ rp_page[b].context = rp_parsed[b].context
              /\ Len(rp_page[b].tracks) = Len(rp_parsed[b].tracks)
              /\ \A t \in DOMAIN rp_parsed[b].tracks :
                    /\ rp_page[b].tracks[t].artist = rp_parsed[b].tracks[t].artist
                    /\ rp_page[b].tracks[t].title = rp_parsed[b].tracks[t].title
                    /\ rp_page[b].tracks[t].album = rp_parsed[b].tracks[t].album
                    /\ rp_page[b].tracks[t].source_line = rp_parsed[b].tracks[t].source_line

\* C21 witness: a page of two blocks was read back, one with a context and
\* one without, with a track that has an album and a track that has neither
\* album nor source_line.
C21_Witness ==
    /\ rp_state = "loaded"
    /\ Len(rp_parsed) = 2
    /\ rp_parsed[1].context = None /\ rp_parsed[2].context # None
    /\ \E t \in DOMAIN rp_parsed[1].tracks : rp_parsed[1].tracks[t].album # None
    /\ \E t \in DOMAIN rp_parsed[2].tracks :
          /\ rp_parsed[2].tracks[t].album = None
          /\ rp_parsed[2].tracks[t].source_line = None
          /\ rp_data[2].tracks[t].album = JNull
    /\ rp_page = rp_parsed

(***************************************************************************)
(* The web API routes that edit the Spotify artifact of a slug             *)
(***************************************************************************)

\* The number of requests served in a row.
MaxRequests == 3

EN_DASH == "en_dash"
Separator == <<" ", EN_DASH, " ">>

\* needle in hay, for strings.
IsInfix(needle, hay) ==
    \E i \in 0..(Len(hay) - Len(needle)) : SubSeq(hay, i + 1, i + Len(needle)) = needle

\* select_playlist_name(source_name, block_title, fetched_at, context)
select_playlist_name(source_name, block_title, fetched_at, context) ==
    LET prefix == IF source_name # None /\ source_name[1] # <<>>
                  THEN source_name[1] ELSE Chars("Imported")
        stripped == Strip(block_title)
        label == IF stripped = <<>> \/ Lower(stripped) \in {Chars("playlist"), Chars("block")}
                 THEN Strip(IF context # None /\ context[1] # <<>>
                            THEN context[1] ELSE Chars("Playlist"))
                 ELSE stripped
    IN  prefix \o Separator \o label \o Separator \o fetched_at

\* The tracks and pages of the stored playlists: the page of the tests, a
\* page whose first title is part of the second, a page with one title
\* twice and a track twice, and a page with a block without a title.
TrackA1 == Track("Artist A1", "Song A1", None, None)
TrackA2 == Track("Artist A2", "Song A2", None, None)
TrackB1 == Track("Artist B1", "Song B1", None, None)

RoutePages ==
    { <<TrackBlock(Chars("Block A"), None, <<TrackA1, TrackA2>>),
        TrackBlock(Chars("Block B"), None, <<TrackB1>>)>>,
      <<TrackBlock(Chars("Set"), None, <<TrackA1>>),
        TrackBlock(Chars("Set 2"), None, <<TrackB1>>)>>,
      <<TrackBlock(Chars("Hour"), Some(Chars("Mon")), <<TrackA2, TrackA2>>),
        TrackBlock(Chars("Hour"), Some(Chars("Tue")), <<TrackB1>>)>>,
      <<TrackBlock(<<>>, None, <<TrackA2>>),
        TrackBlock(Chars("Block B"), None, <<TrackB1>>)>> }

TrackKey(track) == <<track.artist, track.title>>
Catalogs ==
    { {TrackKey(TrackA1), TrackKey(TrackA2), TrackKey(TrackB1)},
      {TrackKey(TrackA1), TrackKey(TrackB1)},
      {} }

SourceName == None
FetchedDate == Chars("2025-01-01")

\* What search_track returns for a track with the catalog as it is.
catalog_result(track, catalog) ==
    IF TrackKey(track) \in catalog
    THEN Some([uri |-> <<"spotify:track", track.artist, track.title>>,
               url |-> <<"https://open.spotify.com/track", track.artist, track.title>>])
    ELSE None

\* _map_tracks_to_spotify as a function of the catalog: the track loop of
\* one block and the block loop.
RECURSIVE map_block_tracks(_, _, _, _, _, _)
map_block_tracks(block, t, tracks, missed, catalog, keep) ==
    IF t > Len(block.tracks) THEN [mapped_tracks |-> tracks, misses |-> missed]
    ELSE LET after == map_track_mode(tracks, missed, block, block.tracks[t],
                                     catalog_result(block.tracks[t], catalog), keep)
         IN  map_block_tracks(block, t + 1, after.mapped_tracks, after.misses, catalog, keep)

RECURSIVE map_page(_, _, _, _, _, _)
map_page(page, b, blocks, missed, catalog, keep) ==
    IF b > Len(page) THEN [mapped_blocks |-> blocks, misses |-> missed]
    ELSE LET after == map_block_tracks(page[b], 1, <<>>, missed, catalog, keep)
         IN  map_page(page, b + 1, end_block(blocks, page[b], after.mapped_tracks),
                      after.misses, catalog, keep)

\* track.get("spotify_uri") is there and not empty.
has_uri(track) == "spotify_uri" \in DOMAIN track /\ track.spotify_uri # ""

\* The URIs of the tracks of a block that have one, in track order.
uris_of(block) ==
    LET with == SelectSeq(block.tracks, has_uri)
    IN  [i \in DOMAIN with |-> with[i].spotify_uri]

\* The playlist the catalog creates as the n-th one.
PlaylistId(n) == <<"playlist", n>>
PlaylistUrl(n) == <<"https://open.spotify.com/playlist", n>>

\* What add_tracks returns: everything added, or with the catalog refusing
\* the chunk, nothing added and every URI failed.
add_tracks_result(uris, broken) ==
    IF broken THEN [added |-> 0, failed |-> uris] ELSE [added |-> Len(uris), failed |-> <<>>]

\* The results _create_playlists starts with, the calls it has made and the
\* blocks its playlists are from.
EmptyResults(next_id) ==
    [playlists |-> <<>>, master_playlist |-> None, failed_tracks |-> <<>>,
     master_tracks |-> <<>>, calls |-> <<>>, origin |-> <<>>, next |-> next_id]

\* A playlist created and filled: the two catalog calls and the record kept.
created_playlist(acc, name, uris, broken) ==
    LET id == PlaylistId(acc.next + 1)
        outcome == add_tracks_result(uris, broken)
    IN  [record |-> [id |-> id, name |-> name, url |-> PlaylistUrl(acc.next + 1),
                     tracks |-> uris, tracks_added |-> outcome.added],
         failed |-> outcome.failed,
         calls |-> <<[op |-> "create_playlist", id |-> id, name |-> name],
                     [op |-> "add_tracks", id |-> id, uris |-> uris]>>]

\* Mutant of create_block_playlist: a block without URIs gets a playlist too.
create_block_playlist_always(acc, block, b, broken) ==
    LET uris == uris_of(block)
        made == created_playlist(acc,
                    select_playlist_name(SourceName, block.title, FetchedDate, block.context),
                    uris, broken)
    IN  [acc EXCEPT !.playlists = Append(@, made.record),
                    !.failed_tracks = @ \o made.failed,
                    !.master_tracks = @ \o uris,
                    !.calls = @ \o made.calls,
                    !.origin = Append(@, b),
                    !.next = @ + 1]

\* The body of the block loop of _create_playlists.
create_block_playlist(acc, block, b, broken) ==
    LET uris == uris_of(block)
        made == created_playlist(acc,
                    select_playlist_name(SourceName, block.title, FetchedDate, block.context),
                    uris, broken)
    IN  IF uris = <<>> THEN acc
        ELSE [acc EXCEPT !.playlists = Append(@, made.record),
                         !.failed_tracks = @ \o made.failed,
                         !.master_tracks = @ \o uris,
                         !.calls = @ \o made.calls,
                         !.origin = Append(@, b),
                         !.next = @ + 1]

\* The master playlist after the loop.
create_master_playlist(acc, master, broken) ==
    LET made == created_playlist(acc,
                    (IF SourceName # None /\ SourceName[1] # <<>>
                     THEN SourceName[1] ELSE Chars("Imported"))
                        \o Separator \o Chars("All") \o Separator \o FetchedDate,
                    acc.master_tracks, broken)
    IN  IF master /\ acc.master_tracks # <<>>
        THEN [acc EXCEPT !.master_playlist = Some(made.record),
                         !.failed_tracks = @ \o made.failed,
                         !.calls = @ \o made.calls,
                         !.next = @ + 1]
        ELSE acc

\* _create_playlists(client, parsed, mapped_blocks, master_playlist)
RECURSIVE create_playlists_loop(_, _, _, _)
create_playlists_loop(blocks, b, acc, broken) ==
    IF b > Len(blocks) THEN acc
    ELSE create_playlists_loop(blocks, b + 1,
                               create_block_playlist(acc, blocks[b], b, broken), broken)

create_playlists(blocks, master, next_id, broken) ==
    create_master_playlist(create_playlists_loop(blocks, 1, EmptyResults(next_id), broken),
                           master, broken)

\* All URIs of the artifact's blocks, in block then track order.
all_uris(blocks) == Flatten([b \in DOMAIN blocks |-> uris_of(blocks[b])])

\* The position in playlists of the first playlist with the id, 0 for none.
playlist_index(playlists, id) ==
    IF \E i \in DOMAIN playlists : playlists[i].id = id
    THEN CHOOSE i \in DOMAIN playlists :
            /\ playlists[i].id = id
            /\ \A j \in 1..(i - 1) : playlists[j].id # id
    ELSE 0

\* The first block whose title is not empty and is part of the name, 0 for
\* none.
block_by_name(blocks, name) ==
    IF \E b \in DOMAIN blocks : blocks[b].title # <<>> /\ IsInfix(blocks[b].title, name)
    THEN CHOOSE b \in DOMAIN blocks :
            /\ blocks[b].title # <<>> /\ IsInfix(blocks[b].title, name)
            /\ \A c \in 1..(b - 1) :
                  ~(blocks[c].title # <<>> /\ IsInfix(blocks[c].title, name))
    ELSE 0

\* What sync_spotify_playlist finds for a playlist id: whether the artifact
\* has it, whether it is the master, its position in playlists and the URIs
\* collected for it.
sync_target(art, id) ==
    LET is_master == art.master_playlist # None /\ art.master_playlist[1].id = id
        idx == playlist_index(art.playlists, id)
        named == IF idx = 0 THEN 0 ELSE block_by_name(art.blocks, art.playlists[idx].name)
        match == IF named # 0 THEN named
                 ELSE IF idx # 0 /\ idx <= Len(art.blocks) THEN idx ELSE 0
    IN  [found |-> is_master \/ idx # 0,
         is_master |-> is_master,
         index |-> idx,
         block |-> IF is_master THEN 0 ELSE match,
         uris |-> IF is_master THEN all_uris(art.blocks)
                  ELSE IF idx = 0 THEN <<>>
                  ELSE IF match # 0 THEN uris_of(art.blocks[match])
                  ELSE art.playlists[idx].tracks]

\* The artifact with the tracks of the playlist replaced.
synced(art, target) ==
    IF target.is_master
    THEN [art EXCEPT !.master_playlist =
                        Some([@[1] EXCEPT !.tracks = target.uris,
                                          !.tracks_added = Len(target.uris)])]
    ELSE [art EXCEPT !.playlists[target.index] =
                        [@ EXCEPT !.tracks = target.uris,
                                  !.tracks_added = Len(target.uris)]]

\* The check of the indices of assign_track_uri (counted from 0): 0 when
\* they address a track, 400 else.
assign_check(art, block_idx, track_idx) ==
    IF block_idx < 0 \/ block_idx >= Len(art.blocks) THEN 400
    ELSE IF track_idx < 0 \/ track_idx >= Len(art.blocks[block_idx + 1].tracks) THEN 400
    ELSE 0

\* Mutant of assigned: the misses are left as they are.
assigned_keep_misses(art, block_idx, track_idx, uri, url) ==
    LET old == art.blocks[block_idx + 1].tracks[track_idx + 1]
        with_uri == dict_set(old, "spotify_uri", uri)
        track == IF url # None /\ url[1] # ""
                 THEN dict_set(with_uri, "spotify_url", url[1]) ELSE with_uri
    IN  [art EXCEPT !.blocks[block_idx + 1].tracks[track_idx + 1] = track]

\* The artifact after assign_track_uri set the URI of the addressed track
\* and filtered the misses.
assigned(art, block_idx, track_idx, uri, url) ==
    LET old == art.blocks[block_idx + 1].tracks[track_idx + 1]
        with_uri == dict_set(old, "spotify_uri", uri)
        track == IF url # None /\ url[1] # ""
                 THEN dict_set(with_uri, "spotify_url", url[1]) ELSE with_uri
        block_title == art.blocks[block_idx + 1].title
        other(m) == ~(m.artist = track.artist /\ m.title = track.title
                      /\ m.block = block_title)
    IN  [art EXCEPT !.blocks[block_idx + 1].tracks[track_idx + 1] = track,
                    !.misses = SelectSeq(@, other)]

\* Mutant of create_check: an artifact with playlists does not stop the
\* creation.
create_check_parsed_only(page, existing) ==
    IF page = None THEN 404 ELSE 0

\* The checks of create_spotify_playlists before any catalog call: 0 when
\* the creation goes on.
create_check(page, existing) ==
    IF page = None THEN 404
    ELSE IF existing # None /\ existing[1].playlists # <<>> THEN 400
    ELSE 0

\* The search_track calls of the mapper for a page.
search_calls(page) ==
    Flatten([b \in DOMAIN page |->
                [t \in DOMAIN page[b].tracks |->
                    [op |-> "search_track", artist |-> page[b].tracks[t].artist,
                     title |-> page[b].tracks[t].title]]])

\* A request is served.
Serve(endpoint, args) ==
    /\ rt_requests < MaxRequests
    /\ rt_requests' = rt_requests + 1
    /\ rt_request' = Some([endpoint |-> endpoint, args |-> args])
    /\ rt_before' = db_spotify

\* The request is answered with an error and nothing is written.
Refuse(status) ==
    /\ rt_response' = Some([status |-> status])
    /\ rt_calls' = <<>>
    /\ UNCHANGED <<db_parsed, db_spotify, rt_next_id, created_from>>

InitRoutes ==
    /\ ClientInit
    /\ RetryIdle /\ SearchIdle /\ AddIdle /\ MatchIdle /\ ImportIdle
    /\ NormIdle /\ CrawlIdle /\ ReplayIdle /\ ProcessIdle /\ ReprocessIdle
    /\ PipelineIdle /\ RaisedIdle /\ BlockedIdle
    /\ \E page \in RoutePages : db_parsed = Some(page)
    /\ db_spotify = None
    /\ rt_catalog \in Catalogs
    /\ rt_next_id = 0
    /\ rt_requests = 0 /\ rt_request = None /\ rt_response = None /\ rt_before = None
    /\ rt_calls = <<>>
    /\ created_from = EmptyDict

\* The playlists of a creation with the blocks they are from.
origins_of(results) ==
    [id \in {results.playlists[i].id : i \in DOMAIN results.playlists}
            \cup (IF results.master_playlist # None
                  THEN {results.master_playlist[1].id} ELSE {}) |->
        IF \E i \in DOMAIN results.playlists : results.playlists[i].id = id
        THEN results.origin[CHOOSE i \in DOMAIN results.playlists :
                                results.playlists[i].id = id]
        ELSE 0]

\* POST /{slug}/create
CreateSpotifyPlaylists(masters, raising) ==
    \E master \in masters, broken \in BOOLEAN, raises \in raising :
        /\ Serve("create", [master_playlist |-> master])
        /\ LET status == create_check(db_parsed, db_spotify)
               mapping == map_page(db_parsed[1], 1, <<>>, <<>>, rt_catalog, FALSE)
               results == create_playlists(mapping.mapped_blocks, master, rt_next_id, broken)
           IN  IF status # 0 THEN Refuse(status)
               ELSE IF raises
               THEN /\ rt_response' = Some([status |-> 500])
                    /\ rt_calls' = SubSeq(search_calls(db_parsed[1]), 1, 1)
                    /\ UNCHANGED <<db_parsed, db_spotify, rt_next_id, created_from>>
               ELSE /\ db_spotify' = Some([blocks |-> mapping.mapped_blocks,
                                           playlists |-> results.playlists,
                                           master_playlist |-> results.master_playlist,
                                           misses |-> mapping.misses,
                                           failed_tracks |-> results.failed_tracks])
                    /\ rt_next_id' = results.next
                    /\ rt_calls' = search_calls(db_parsed[1]) \o results.calls
                    /\ created_from' = [id \in DOMAIN created_from
                                               \cup DOMAIN origins_of(results) |->
                                           IF id \in DOMAIN origins_of(results)
                                           THEN origins_of(results)[id]
                                           ELSE created_from[id]]
                    /\ rt_response' = Some([status |-> 200])
                    /\ UNCHANGED db_parsed
        /\ UNCHANGED rt_catalog
        /\ UNCHANGED routesFrame

\* POST /{slug}/remap
RemapPlaylist(raising) ==
    \E raises \in raising :
        /\ Serve("remap", <<>>)
        /\ IF db_parsed = None THEN Refuse(404)
           ELSE IF raises
           THEN /\ rt_response' = Some([status |-> 500])
                /\ rt_calls' = SubSeq(search_calls(db_parsed[1]), 1, 1)
                /\ UNCHANGED <<db_parsed, db_spotify, rt_next_id, created_from>>
           ELSE LET mapping == map_page(db_parsed[1], 1, <<>>, <<>>, rt_catalog, TRUE)
                IN  /\ db_spotify' = Some(remap_artifact(mapping.mapped_blocks,
                                                         mapping.misses, db_spotify))
                    /\ rt_calls' = search_calls(db_parsed[1])
                    /\ rt_response' = Some([status |-> 200])
                    /\ UNCHANGED <<db_parsed, rt_next_id, created_from>>
        /\ UNCHANGED rt_catalog
        /\ UNCHANGED routesFrame

AssignedUri == "spotify:track:456"
AssignedUrls == {None, Some("https://open.spotify.com/track/456")}

\* POST /{slug}/tracks/{block_idx}/{track_idx}/assign
AssignTrackUri(indices) ==
    \E block_idx \in indices, track_idx \in indices, url \in AssignedUrls :
        /\ Serve("assign", [block_idx |-> block_idx, track_idx |-> track_idx,
                            uri |-> AssignedUri, url |-> url])
        /\ IF db_spotify = None THEN Refuse(404)
           ELSE IF assign_check(db_spotify[1], block_idx, track_idx) # 0
           THEN Refuse(assign_check(db_spotify[1], block_idx, track_idx))
           ELSE /\ db_spotify' = Some(assigned(db_spotify[1], block_idx, track_idx,
                                               AssignedUri, url))
                /\ rt_response' = Some([status |-> 200])
                /\ rt_calls' = <<>>
                /\ UNCHANGED <<db_parsed, rt_next_id, created_from>>
        /\ UNCHANGED rt_catalog
        /\ UNCHANGED routesFrame

\* POST /playlists/{playlist_id}/sync
SyncSpotifyPlaylist(ids, raising) ==
    \E id \in ids, raises \in raising :
        /\ Serve("sync", [playlist_id |-> id])
        /\ IF db_spotify = None THEN Refuse(404)
           ELSE LET target == sync_target(db_spotify[1], id)
                IN  IF ~target.found THEN Refuse(404)
                    ELSE /\ rt_calls' = <<[op |-> "replace_playlist_tracks", id |-> id,
                                           uris |-> target.uris]>>
                         /\ IF raises
                            THEN /\ rt_response' = Some([status |-> 500])
                                 /\ UNCHANGED db_spotify
                            ELSE /\ rt_response' = Some([status |-> 200])
                                 /\ db_spotify' = Some(synced(db_spotify[1], target))
                         /\ UNCHANGED <<db_parsed, rt_next_id, created_from>>
        /\ UNCHANGED rt_catalog
        /\ UNCHANGED routesFrame

\* DELETE /api/playlists/{slug}
DeletePlaylist ==
    \E also_spotify \in BOOLEAN :
        /\ Serve("delete", [also_spotify |-> also_spotify])
        /\ db_parsed' = None
        /\ db_spotify' = IF also_spotify THEN None ELSE db_spotify
        /\ rt_response' =
              Some([status |-> IF db_parsed # None \/ (also_spotify /\ db_spotify # None)
                               THEN 200 ELSE 404])
        /\ rt_calls' = <<>>
        /\ UNCHANGED <<rt_catalog, rt_next_id, created_from>>
        /\ UNCHANGED routesFrame

\* The indices and playlist ids of the requests; no playlist has the id 0.
RouteIndices == -1..2
RouteIds == {PlaylistId(n) : n \in 0..3}

NextRoutes ==
    \/ CreateSpotifyPlaylists(BOOLEAN, BOOLEAN)
    \/ RemapPlaylist(BOOLEAN)
    \/ AssignTrackUri(RouteIndices)
    \/ SyncSpotifyPlaylist(RouteIds, BOOLEAN)
    \/ DeletePlaylist

SpecRoutes == InitRoutes /\ [][NextRoutes]_vars

\* The last request was of the endpoint and was answered with the status.
Answered(endpoint, status) ==
    /\ rt_request # None /\ rt_request[1].endpoint = endpoint
    /\ rt_response = Some([status |-> status])

\* The playlist with the id in the artifact.
PlaylistOf(art, id) ==
    IF art.master_playlist # None /\ art.master_playlist[1].id = id
    THEN art.master_playlist[1]
    ELSE art.playlists[playlist_index(art.playlists, id)]

\* C22: a sync of the master playlist sends the spotify_uri of every track
\* that has one, over all blocks in block then track order; a sync of a
\* block playlist sends exactly the URIs of the block the playlist was
\* created from; afterwards the playlist's tracks and tracks_added in the
\* saved artifact are the list sent and its length.
C22_SyncSendsOwnBlock ==
    Answered("sync", 200) =>
        LET id == rt_request[1].args.playlist_id
            sent == rt_calls[1].uris
            before == rt_before[1]
        IN  /\ rt_calls[1].op = "replace_playlist_tracks" /\ rt_calls[1].id = id
            /\ sent = IF created_from[id] = 0 THEN all_uris(before.blocks)
                      ELSE uris_of(before.blocks[created_from[id]])
            /\ PlaylistOf(db_spotify[1], id).tracks = sent
            /\ PlaylistOf(db_spotify[1], id).tracks_added = Len(sent)

\* The indices of the last assign request address a track of the artifact.
AssignInRange(art) ==
    LET args == rt_request[1].args
    IN  /\ args.block_idx >= 0 /\ args.block_idx < Len(art.blocks)
        /\ args.track_idx >= 0
        /\ args.track_idx < Len(art.blocks[args.block_idx + 1].tracks)

CreateRequested == rt_request # None /\ rt_request[1].endpoint = "create"

\* The artifact listed a playlist when the last request came.
HadPlaylists == rt_before # None /\ rt_before[1].playlists # <<>>

\* The last request made no catalog call and left the artifact as it was.
NothingDone == rt_calls = <<>> /\ db_spotify = rt_before

\* C24 as stated: create_spotify_playlists for a slug whose artifact lists a
\* playlist answers 400 without a catalog call and leaves the artifact
\* unchanged; for a slug without a parsed playlist it answers 404.
C24_ExistingPlaylistsRefused ==
    CreateRequested =>
        /\ HadPlaylists => (rt_response = Some([status |-> 400]) /\ NothingDone)
        /\ db_parsed = None => rt_response = Some([status |-> 404])

\* C24 amended: the parsed playlist is looked up first.  Without one the
\* answer is 404, also when an artifact with playlists is stored; with one
\* and an artifact that lists a playlist the answer is 400.  Both make no
\* catalog call and leave the artifact unchanged.
C24_ParsedThenExisting ==
    CreateRequested =>
        /\ db_parsed = None => (rt_response = Some([status |-> 404]) /\ NothingDone)
        /\ (db_parsed # None /\ HadPlaylists) =>
              (rt_response = Some([status |-> 400]) /\ NothingDone)

\* C24 witness: a second create after one that made playlists was answered
\* with 400.
C24_Witness ==
    /\ Answered("create", 400)
    /\ db_parsed # None
    /\ HadPlaylists
    /\ rt_requests >= 2

\* The positions of the blocks that have a URI, in block order.
BlocksWithUris(blocks) ==
    SelectSeq([b \in DOMAIN blocks |-> b], LAMBDA b : uris_of(blocks[b]) # <<>>)

\* The catalog calls of the last request after the searches of the mapper.
CreationCalls == SelectSeq(rt_calls, LAMBDA c : c.op # "search_track")

\* C25: _create_playlists creates one playlist per mapped block that has a
\* URI, in block order, and none for a block without URIs; the master
\* playlist is created exactly when master_playlist is set and there is a
\* URI at all, after all block playlists, with the block URI lists
\* concatenated in block order as its tracks.
C25_PlaylistPerBlockWithUris ==
    Answered("create", 200) =>
        LET after == db_spotify[1]
            from == BlocksWithUris(after.blocks)
            n == Len(from)
            master == rt_request[1].args.master_playlist
        IN  /\ Len(after.playlists) = n
            /\ \A i \in 1..n :
                  /\ after.playlists[i].tracks = uris_of(after.blocks[from[i]])
                  /\ created_from[after.playlists[i].id] = from[i]
                  /\ CreationCalls[2 * i - 1] =
                        [op |-> "create_playlist", id |-> after.playlists[i].id,
                         name |-> after.playlists[i].name]
                  /\ CreationCalls[2 * i] =
                        [op |-> "add_tracks", id |-> after.playlists[i].id,
                         uris |-> after.playlists[i].tracks]
            /\ (after.master_playlist # None) <=> (master /\ all_uris(after.blocks) # <<>>)
            /\ after.master_playlist = None => Len(CreationCalls) = 2 * n
            /\ after.master_playlist # None =>
                  /\ after.master_playlist[1].tracks =
                        Flatten([i \in 1..n |-> after.playlists[i].tracks])
                  /\ Len(CreationCalls) = 2 * n + 2
                  /\ CreationCalls[2 * n + 1].op = "create_playlist"
                  /\ CreationCalls[2 * n + 1].id = after.master_playlist[1].id
                  /\ CreationCalls[2 * n + 2] =
                        [op |-> "add_tracks", id |-> after.master_playlist[1].id,
                         uris |-> after.master_playlist[1].tracks]

\* C25 witness: of two blocks the first has no URI and no playlist, the
\* second has the one playlist, and the master playlist was made after it.
C25_Witness ==
    /\ Answered("create", 200)
    /\ Len(db_spotify[1].blocks) = 2
    /\ uris_of(db_spotify[1].blocks[1]) = <<>>
    /\ Len(db_spotify[1].playlists) = 1
    /\ created_from[db_spotify[1].playlists[1].id] = 2
    /\ db_spotify[1].master_playlist # None
    /\ CreationCalls[3].id = db_spotify[1].master_playlist[1].id

(***************************************************************************)
(* _process_url: _merge_blocks_by_title and _dedupe_blocks_globally        *)
(***************************************************************************)

\* The most blocks parse_with_llm returns.
MaxRawBlocks == 3

\* (block.context or "").strip().lower() or None
context_key(context) ==
    LET text == Lower(Strip(IF context # None THEN context[1] ELSE <<>>))
    IN  IF text = <<>> THEN None ELSE Some(text)

\* Mutant of block_key: the context is not part of the key.
block_key_title_only(block) == <<Lower(Strip(block.title)), None>>

\* The key of _merge_blocks_by_title.
block_key(block) == <<Lower(Strip(block.title)), context_key(block.context)>>

\* The body of the loop of _merge_blocks_by_title on the dict merged, kept
\* as the sequence of its (key, value) pairs in insertion order.
merge_step(merged, block) ==
    IF \E i \in DOMAIN merged : merged[i].key = block_key(block)
    THEN [i \in DOMAIN merged |->
            IF merged[i].key = block_key(block)
            THEN [key |-> merged[i].key,
                  value |-> TrackBlock(merged[i].value.title, merged[i].value.context,
                                       merged[i].value.tracks \o block.tracks)]
            ELSE merged[i]]
    ELSE Append(merged, [key |-> block_key(block), value |-> block])

RECURSIVE merge_loop(_, _, _)
merge_loop(blocks, b, merged) ==
    IF b > Len(blocks) THEN merged
    ELSE merge_loop(blocks, b + 1, merge_step(merged, blocks[b]))

\* _merge_blocks_by_title(blocks): list(merged.values())
merge_blocks_by_title(blocks) ==
    LET merged == merge_loop(blocks, 1, <<>>)
    IN  [i \in DOMAIN merged |-> merged[i].value]

\* The key of _dedupe_tracks.
track_key(track) == <<Strip(Lower(track.artist)), Strip(Lower(track.title))>>

\* _dedupe_tracks(tracks, seen) from track t on.
RECURSIVE dedupe_tracks(_, _, _, _)
dedupe_tracks(tracks, t, deduped, seen) ==
    IF t > Len(tracks) THEN [deduped |-> deduped, seen |-> seen]
    ELSE IF track_key(tracks[t]) \in seen
    THEN dedupe_tracks(tracks, t + 1, deduped, seen)
    ELSE dedupe_tracks(tracks, t + 1, Append(deduped, tracks[t]),
                       seen \cup {track_key(tracks[t])})

\* Mutant of dedupe_block: every block starts with an empty seen set.
dedupe_block_local(result, seen, block) ==
    LET after == dedupe_tracks(block.tracks, 1, <<>>, {})
    IN  [result |-> IF after.deduped # <<>>
                    THEN Append(result, TrackBlock(block.title, block.context, after.deduped))
                    ELSE result,
         seen |-> after.seen]

\* The body of the loop of _dedupe_blocks_globally.
dedupe_block(result, seen, block) ==
    LET after == dedupe_tracks(block.tracks, 1, <<>>, seen)
    IN  [result |-> IF after.deduped # <<>>
                    THEN Append(result, TrackBlock(block.title, block.context, after.deduped))
                    ELSE result,
         seen |-> after.seen]

RECURSIVE dedupe_loop(_, _, _, _)
dedupe_loop(blocks, b, result, seen) ==
    IF b > Len(blocks) THEN result
    ELSE LET after == dedupe_block(result, seen, blocks[b])
         IN  dedupe_loop(blocks, b + 1, after.result, after.seen)

\* _dedupe_blocks_globally(blocks)
dedupe_blocks_globally(blocks) == dedupe_loop(blocks, 1, <<>>, {})

\* The blocks parse_with_llm returns in the model: titles and contexts that
\* differ in case and in whitespace only, an empty context, an empty block,
\* and tracks that are another's duplicate but for case and whitespace.
RawTrack(artist, title) == Track(Chars(artist), Chars(title), None, None)
RawAbCd == RawTrack("Ab", "cd")
RawAbCdUpper == RawTrack("AB ", " CD")
RawXy == RawTrack("x", "y")
RawZ == RawTrack("z", "z")

RawBlocks ==
    { TrackBlock(Chars("A"), None, <<RawAbCd, RawXy>>),
      TrackBlock(Chars("a "), Some(Chars(" ")), <<RawAbCdUpper>>),
      TrackBlock(Chars("A"), Some(Chars("x")), <<RawXy>>),
      TrackBlock(Chars("A"), Some(Chars("X ")), <<RawZ>>),
      TrackBlock(Chars("B"), None, <<RawAbCdUpper, RawZ>>),
      TrackBlock(Chars("B"), None, <<>>),
      TrackBlock(Chars("A"), None, <<RawXy, RawXy>>),
      TrackBlock(Chars("B"), Some(<<>>), <<RawAbCdUpper>>) }

InitProcess ==
    /\ ClientInit
    /\ RetryIdle /\ SearchIdle /\ AddIdle /\ MatchIdle /\ ImportIdle
    /\ NormIdle /\ CrawlIdle /\ ReplayIdle /\ RoutesIdle /\ ReprocessIdle
    /\ PipelineIdle /\ RaisedIdle /\ BlockedIdle
    /\ pu_state = "parsed"
    /\ pu_blocks \in SeqsUpTo(RawBlocks, MaxRawBlocks)
    /\ pu_merged = <<>>
    /\ pu_deduped = <<>>

\* merged_blocks = _merge_blocks_by_title(parsed.blocks)
MergeBlocks ==
    /\ pu_state = "parsed"
    /\ pu_merged' = merge_blocks_by_title(pu_blocks)
    /\ pu_state' = "merged"
    /\ UNCHANGED <<pu_blocks, pu_deduped>>
    /\ UNCHANGED processFrame

\* deduped_blocks = _dedupe_blocks_globally(merged_blocks)
DedupeBlocks ==
    /\ pu_state = "merged"
    /\ pu_deduped' = dedupe_blocks_globally(pu_merged)
    /\ pu_state' = "deduped"
    /\ UNCHANGED <<pu_blocks, pu_merged>>
    /\ UNCHANGED processFrame

NextProcess ==
    \/ MergeBlocks
    \/ DedupeBlocks

SpecProcess == InitProcess /\ [][NextProcess]_vars

\* The key of a block: title stripped and lower-cased, context stripped and
\* lower-cased, an empty context being no context.
MergeKey(block) ==
    <<Lower(Strip(block.title)),
      IF block.context = None \/ Strip(block.context[1]) = <<>> THEN None
      ELSE Some(Lower(Strip(block.context[1])))>>

\* The positions of the blocks that are the first of their key.
FirstOfKey ==
    SelectSeq([i \in DOMAIN pu_blocks |-> i],
              LAMBDA i : \A j \in 1..(i - 1) : MergeKey(pu_blocks[j]) # MergeKey(pu_blocks[i]))

TrackCount(blocks) == Len(Flatten([b \in DOMAIN blocks |-> blocks[b].tracks]))

\* C27: _merge_blocks_by_title returns one block per key in the order of the
\* keys' first occurrences, with the title and context of the first block of
\* the key and the tracks of all blocks of the key in input order; the
\* number of tracks is preserved.
C27_MergeByKey ==
    pu_state \in {"merged", "deduped"} =>
        /\ Len(pu_merged) = Len(FirstOfKey)
        /\ \A n \in DOMAIN FirstOfKey :
              LET first == pu_blocks[FirstOfKey[n]]
              IN  /\ pu_merged[n].title = first.title
                  /\ pu_merged[n].context = first.context
                  /\ pu_merged[n].tracks =
                        Flatten([i \in DOMAIN pu_blocks |->
                                    IF MergeKey(pu_blocks[i]) = MergeKey(first)
                                    THEN pu_blocks[i].tracks ELSE <<>>])
        /\ TrackCount(pu_merged) = TrackCount(pu_blocks)

\* C27 witness: of three blocks the first and the third have one key (they
\* differ in case, in whitespace and in an empty context) and became the
\* first block of two, with the tracks of both.
C27_Witness ==
    /\ pu_state = "merged"
    /\ Len(pu_blocks) = 3
    /\ pu_blocks[1].title # pu_blocks[3].title
    /\ pu_blocks[1].context # pu_blocks[3].context
    /\ MergeKey(pu_blocks[1]) = MergeKey(pu_blocks[3])
    /\ MergeKey(pu_blocks[1]) # MergeKey(pu_blocks[2])
    /\ pu_blocks[3].tracks # <<>>
    /\ Len(pu_merged) = 2
    /\ pu_merged[1].title = pu_blocks[1].title
    /\ pu_merged[1].tracks = pu_blocks[1].tracks \o pu_blocks[3].tracks

\* The key under which two tracks are the same track.
DedupeKey(track) == <<Lower(Strip(track.artist)), Lower(Strip(track.title))>>

\* The tracks of a page in block-major order, each with its block.
PageTracks(blocks) ==
    Flatten([b \in DOMAIN blocks |->
                [t \in DOMAIN blocks[b].tracks |-> [block |-> b, track |-> blocks[b].tracks[t]]]])

\* The tracks of the merged page that are the first of their key.
FirstOfTrack ==
    LET all == PageTracks(pu_merged)
    IN  SelectSeq([i \in DOMAIN all |-> i],
                  LAMBDA i : \A j \in 1..(i - 1) : DedupeKey(all[j].track) # DedupeKey(all[i].track))

\* The blocks of the merged page that keep a track.
KeptBlocks ==
    LET all == PageTracks(pu_merged)
    IN  SelectSeq([b \in DOMAIN pu_merged |-> b],
                  LAMBDA b : \E n \in DOMAIN FirstOfTrack : all[FirstOfTrack[n]].block = b)

\* C28: in the page _process_url produces no two tracks have the same key;
\* the tracks are the first occurrences of the merged page in block-major
\* order, in their order, and a block left with no track is removed.
C28_GloballyDeduped ==
    pu_state = "deduped" =>
        LET all == PageTracks(pu_merged)
            out == PageTracks(pu_deduped)
        IN  /\ \A i, j \in DOMAIN out :
                  DedupeKey(out[i].track) = DedupeKey(out[j].track) => i = j
            /\ Len(pu_deduped) = Len(KeptBlocks)
            /\ \A k \in DOMAIN KeptBlocks :
                  /\ pu_deduped[k].title = pu_merged[KeptBlocks[k]].title
                  /\ pu_deduped[k].context = pu_merged[KeptBlocks[k]].context
                  /\ pu_deduped[k].tracks =
                        LET mine == SelectSeq(FirstOfTrack,
                                              LAMBDA i : all[i].block = KeptBlocks[k])
                        IN  [n \in DOMAIN mine |-> all[mine[n]].track]
            /\ \A k \in DOMAIN pu_deduped : pu_deduped[k].tracks # <<>>

\* C28 witness: a track of the second merged block repeats one of the first
\* but for case and whitespace, the second block lost all its tracks and was
\* removed, and a later block stayed.
C28_Witness ==
    /\ pu_state = "deduped"
    /\ Len(pu_merged) = 3
    /\ pu_merged[2].tracks # <<>>
    /\ \A t \in DOMAIN pu_merged[2].tracks :
          /\ \E u \in DOMAIN pu_merged[1].tracks :
                DedupeKey(pu_merged[1].tracks[u]) = DedupeKey(pu_merged[2].tracks[t])
          /\ \A u \in DOMAIN pu_merged[1].tracks :
                pu_merged[1].tracks[u] # pu_merged[2].tracks[t]
    /\ Len(pu_deduped) = 2
    /\ pu_deduped[2].title = pu_merged[3].title

(***************************************************************************)
(* routes/crawls.py: reprocess_url                                         *)
(***************************************************************************)

\* The most requests of reprocess_url in a behaviour.
MaxReprocess == 2

\* A dict is a function on its keys. {**a, **b}
dict_merge(a, b) ==
    [k \in DOMAIN a \cup DOMAIN b |-> IF k \in DOMAIN b THEN b[k] ELSE a[k]]

\* d.pop(key, None)
dict_pop(d, key) == [k \in DOMAIN d \ {key} |-> d[k]]

\* An llm_usage dict; cost_usd in whole units.
LLMUsage(prompt_tokens, completion_tokens, cost_usd) ==
    [prompt_tokens |-> prompt_tokens, completion_tokens |-> completion_tokens,
     cost_usd |-> cost_usd]

\* Path(f"data/parsed/{url_slug}.json") or Path(f"data/spotify/{url_slug}.json")
artifact_path(dev, url) ==
    <<IF dev THEN "data/parsed" ELSE "data/spotify", slugify_url(url)>>

ArtifactPaths ==
    {artifact_path(dev, url) :
        dev \in BOOLEAN, url \in {"https://example.com/fail", "https://example.com/success"}}

\* The usage an artifact file carries: its "llm_usage" key, when it has one.
usage_of(files, path) ==
    IF path \in DOMAIN files /\ files[path] # None /\ "llm_usage" \in DOMAIN files[path][1]
    THEN Some(files[path][1]["llm_usage"])
    ELSE None

\* The loop of _recalculate_crawl_llm_usage from entry e on.
RECURSIVE usage_loop(_, _, _, _)
usage_loop(entries, e, files, total) ==
    IF e > Len(entries) THEN total
    ELSE LET entry == entries[e]
             usage == IF "artifact" \in DOMAIN entry
                      THEN usage_of(files, entry["artifact"]) ELSE None
         IN  IF "status" \in DOMAIN entry /\ entry["status"] = "success" /\ usage # None
             THEN usage_loop(entries, e + 1, files,
                             LLMUsage(total.prompt_tokens + usage[1].prompt_tokens,
                                      total.completion_tokens + usage[1].completion_tokens,
                                      total.cost_usd + usage[1].cost_usd))
             ELSE usage_loop(entries, e + 1, files, total)

\* Mutant of recalculate_crawl_llm_usage: the crawl is left as it is.
recalculate_crawl_llm_usage_off(crawl, files) == crawl

\* _recalculate_crawl_llm_usage(crawl)
recalculate_crawl_llm_usage(crawl, files) ==
    LET start == IF "link_extraction_llm_usage" \in DOMAIN crawl
                 THEN crawl["link_extraction_llm_usage"] ELSE LLMUsage(0, 0, 0)
        total == usage_loop(IF "processed" \in DOMAIN crawl THEN crawl["processed"] ELSE <<>>,
                            1, files, start)
    IN  IF total.prompt_tokens > 0 \/ total.completion_tokens > 0 \/ total.cost_usd > 0
        THEN dict_set(crawl, "llm_usage", total)
        ELSE crawl

\* result after the try block of reprocess_url.
reprocess_result(url, dev, outcome, files) ==
    IF outcome.raised
    THEN [url |-> url, status |-> "failed", error |-> outcome.text]
    ELSE LET result == [url |-> url,
                        status |-> IF outcome.was_processed THEN "success" ELSE "skipped",
                        mode |-> IF dev THEN "dev" ELSE "import",
                        artifact |-> artifact_path(dev, url)]
             usage == usage_of(files, artifact_path(dev, url))
         IN  IF usage # None
             THEN dict_set(result, "llm_cost_usd", usage[1].cost_usd)
             ELSE result

\* Mutant of updated_entry: a stale error is kept.
updated_entry_keep_error(entry, result) == dict_merge(entry, result)

\* updated_entry of reprocess_url.
updated_entry(entry, result) ==
    IF result["status"] # "failed"
    THEN dict_pop(dict_merge(entry, result), "error")
    ELSE dict_merge(entry, result)

\* The check of reprocess_url before the run: the status it refuses with, 0
\* when it goes on.
reprocess_check(crawl, idx) ==
    IF crawl = None THEN 404
    ELSE LET entries == IF "processed" \in DOMAIN crawl[1]
                        THEN crawl[1]["processed"] ELSE <<>>
         IN  IF idx < 0 \/ idx >= Len(entries) THEN 400
             ELSE IF "url" \notin DOMAIN entries[idx + 1] \/ entries[idx + 1]["url"] = ""
             THEN 400
             ELSE 0

\* The entries of the crawl files of the model: the two of the fixture, one
\* without a URL, and a skipped one.
EntrySuccess ==
    [url |-> "https://example.com/success", description |-> "Playlist 1",
     status |-> "success", mode |-> "import",
     artifact |-> artifact_path(FALSE, "https://example.com/success")]
EntryFailed ==
    [url |-> "https://example.com/fail", description |-> "Playlist 2",
     status |-> "failed", error |-> "Connection timeout"]
EntryNoUrl == [description |-> "Playlist 3", status |-> "failed", error |-> "No URL"]
EntrySkipped ==
    [url |-> "https://example.com/fail", status |-> "skipped", mode |-> "dev",
     artifact |-> artifact_path(TRUE, "https://example.com/fail")]
CrawlEntries == {EntrySuccess, EntryFailed, EntryNoUrl, EntrySkipped}

\* The crawl files of the model: with and without the usage of the link
\* extraction and with and without a stored total.
CrawlFiles ==
    {None} \cup
    {Some(dict_merge(dict_merge([index_url |-> "https://example.com/index",
                                 processed |-> entries],
                                extraction), stored)) :
        entries \in SeqsUpTo(CrawlEntries, 2),
        extraction \in {<<>>, [link_extraction_llm_usage |-> LLMUsage(10, 5, 1)]},
        stored \in {<<>>, [llm_usage |-> LLMUsage(10, 5, 1)]}}

\* What an artifact file holds: with or without an llm_usage.
ArtifactData == {<<>>, [llm_usage |-> LLMUsage(100, 50, 2)]}

\* The artifact files at the start: none, or the one of the successful entry.
ArtifactFiles ==
    {[path \in ArtifactPaths |->
        IF path = artifact_path(FALSE, "https://example.com/success") THEN file ELSE None] :
        file \in {None} \cup {Some(data) : data \in ArtifactData}}

\* What run_dev or run_import leaves of the artifact of the URL: written
\* when the URL was processed, untouched when it was skipped, either when
\* the run raised.
files_after(files, path, outcome, data) ==
    IF outcome.was_processed \/ (outcome.raised /\ outcome.text = "Simulated failure")
    THEN [files EXCEPT ![path] = Some(data)]
    ELSE files

InitReprocess ==
    /\ ClientInit
    /\ RetryIdle /\ SearchIdle /\ AddIdle /\ MatchIdle /\ ImportIdle
    /\ NormIdle /\ CrawlIdle /\ ReplayIdle /\ RoutesIdle /\ ProcessIdle /\ PipelineIdle
    /\ RaisedIdle /\ BlockedIdle
    /\ rc_crawl \in CrawlFiles
    /\ rc_files \in ArtifactFiles
    /\ rc_request = <<>>
    /\ rc_response = <<>>
    /\ rc_before = <<>>
    /\ rc_count = 0

\* POST /api/crawls/{slug}/reprocess/{idx}: refused.
ReprocessRefused(indices) ==
    \E idx \in indices, dev \in BOOLEAN, force \in BOOLEAN :
        /\ rc_count < MaxReprocess
        /\ reprocess_check(rc_crawl, idx) # 0
        /\ rc_request' = [idx |-> idx, dev_mode |-> dev, force |-> force,
                          outcome |-> Returned(FALSE)]
        /\ rc_response' = [status |-> reprocess_check(rc_crawl, idx), body |-> <<>>]
        /\ rc_before' = rc_crawl
        /\ rc_count' = rc_count + 1
        /\ UNCHANGED <<rc_crawl, rc_files>>
        /\ UNCHANGED reprocessFrame

\* POST /api/crawls/{slug}/reprocess/{idx}: the URL is run and the crawl
\* file is saved.
ReprocessUrl(indices, outcomes) ==
    \E idx \in indices, dev \in BOOLEAN, force \in BOOLEAN,
       outcome \in outcomes, data \in ArtifactData :
        /\ rc_count < MaxReprocess
        /\ reprocess_check(rc_crawl, idx) = 0
        /\ LET crawl == rc_crawl[1]
               entry == crawl["processed"][idx + 1]
               files == files_after(rc_files, artifact_path(dev, entry["url"]), outcome, data)
               result == reprocess_result(entry["url"], dev, outcome, files)
               entries == [crawl["processed"] EXCEPT
                              ![idx + 1] = updated_entry(entry, result)]
           IN  /\ rc_files' = files
               /\ rc_crawl' = Some(recalculate_crawl_llm_usage(
                                       dict_set(crawl, "processed", entries), files))
               /\ rc_request' = [idx |-> idx, dev_mode |-> dev, force |-> force,
                                 outcome |-> outcome]
               /\ rc_response' = [status |-> 200, body |-> result]
        /\ rc_before' = rc_crawl
        /\ rc_count' = rc_count + 1
        /\ UNCHANGED reprocessFrame

ReprocessIndices == -1..2

NextReprocess ==
    \/ ReprocessRefused(ReprocessIndices)
    \/ ReprocessUrl(ReprocessIndices, LinkOutcomes)

SpecReprocess == InitReprocess /\ [][NextReprocess]_vars

\* The entry the last request addressed, before and after it.
OldEntry == rc_before[1]["processed"][rc_request.idx + 1]
NewEntry == rc_crawl[1]["processed"][rc_request.idx + 1]

\* The result merged over the old entry, a stale error removed unless the
\* new status is "failed".
MergedOver(old, result) ==
    [k \in (DOMAIN old \cup DOMAIN result) \
           (IF result["status"] # "failed" /\ "error" \notin DOMAIN result
            THEN {"error"} ELSE {}) |->
        IF k \in DOMAIN result THEN result[k] ELSE old[k]]

\* The answer to a request that ran the URL: always 200, with status
\* "failed" and the error text when the run raised.
RunAnswered ==
    /\ rc_response.status = 200
    /\ rc_response.body["url"] = OldEntry["url"]
    /\ IF rc_request.outcome.raised
       THEN /\ rc_response.body["status"] = "failed"
            /\ rc_response.body["error"] = rc_request.outcome.text
       ELSE /\ rc_response.body["status"] =
                  (IF rc_request.outcome.was_processed THEN "success" ELSE "skipped")
            /\ rc_response.body["mode"] = (IF rc_request.dev_mode THEN "dev" ELSE "import")

\* The index of the last request is in the range of processed.
IndexInRange ==
    /\ rc_before # None
    /\ rc_request.idx >= 0
    /\ rc_request.idx < Len(rc_before[1]["processed"])

\* The last request addressed an entry with a URL.
Reprocessed == IndexInRange /\ "url" \in DOMAIN OldEntry

\* processed after the request: entry idx replaced, the others as they were.
OnlyEntryReplaced ==
    rc_crawl[1]["processed"] =
        [rc_before[1]["processed"] EXCEPT
            ![rc_request.idx + 1] = MergedOver(OldEntry, rc_response.body)]

C29_WitnessRaised ==
    /\ rc_request # <<>>
    /\ Reprocessed
    /\ rc_request.outcome.raised
    /\ rc_response.status = 200
    /\ NewEntry["status"] = "failed"
    /\ NewEntry["error"] = rc_request.outcome.text
    /\ OldEntry["status"] = "success"

(***************************************************************************)
(* pipeline.py: run_import and run_dev skip what is already done           *)
(***************************************************************************)

\* The most calls of run_import and run_dev in a behaviour.
MaxRuns == 3

PipelineUrls == {"https://example.com/fail", "https://example.com/success"}

\* _get_artifact_path(url, artifact_type)
get_artifact_path(url, artifact_type) == <<artifact_type, slugify_url(url)>>

\* is_already_imported(url) and is_already_parsed(url)
is_already_imported(files, url) == get_artifact_path(url, "spotify") \in files
is_already_parsed(files, url) == get_artifact_path(url, "parsed") \in files

\* Where a run raises: nowhere, in require_spotify_auth, in the fetch, in
\* parse_with_llm or in a call of the catalog.
FailPoints == {"none", "auth", "fetch", "llm", "catalog"}

NoEffects == [fetches |-> 0, llm_calls |-> 0, catalog_calls |-> 0, writes |-> 0, playlists |-> 0]

\* The state of a run: the files, the effects and whether it raised.
Run(files, effects, raised) == [files |-> files, effects |-> effects, raised |-> raised]

\* _load_or_fetch_content: the raw file is read when it exists and force is
\* off, else the page is fetched and the raw file written.
load_or_fetch_content(run, url, force, fail) ==
    IF get_artifact_path(url, "raw") \in run.files /\ ~force THEN run
    ELSE IF fail = "fetch"
    THEN Run(run.files, [run.effects EXCEPT !.fetches = @ + 1], TRUE)
    ELSE Run(run.files \cup {get_artifact_path(url, "raw")},
             [run.effects EXCEPT !.fetches = @ + 1, !.writes = @ + 1], FALSE)

\* _process_url: content, parse_with_llm, and the parsed artifact written.
process_url(run, url, force, fail) ==
    LET loaded == load_or_fetch_content(run, url, force, fail)
    IN  IF loaded.raised THEN loaded
        ELSE IF fail = "llm"
        THEN Run(loaded.files, [loaded.effects EXCEPT !.llm_calls = @ + 1], TRUE)
        ELSE Run(loaded.files \cup {get_artifact_path(url, "parsed")},
                 [loaded.effects EXCEPT !.llm_calls = @ + 1, !.writes = @ + 1], FALSE)

\* Mutant of import_skipped: force is not looked at.
import_skipped_forced(files, url, force) == is_already_imported(files, url)

\* The test at the head of run_import.
import_skipped(files, url, force) == ~force /\ is_already_imported(files, url)

\* The test at the head of run_dev.
dev_skipped(files, url, force) == ~force /\ is_already_parsed(files, url)

\* run_import past its test: created is the number of playlists
\* _create_playlists creates.
import_url(run, url, force, write_playlists, created, fail) ==
    IF fail = "auth" THEN Run(run.files, run.effects, TRUE)
    ELSE LET done == process_url(run, url, force, fail)
         IN  IF done.raised THEN done
             ELSE IF fail = "catalog"
             THEN Run(done.files, [done.effects EXCEPT !.catalog_calls = @ + 1], TRUE)
             ELSE Run(done.files \cup {get_artifact_path(url, "spotify")},
                      [done.effects EXCEPT
                          !.catalog_calls = @ + (IF write_playlists THEN 2 ELSE 1),
                          !.playlists = @ + (IF write_playlists THEN created ELSE 0),
                          !.writes = @ + 1],
                      FALSE)

\* What a call returned: "False" when skipped, "True" when processed,
\* "raised" when it raised.
run_returned(skipped, run) ==
    IF skipped THEN "False" ELSE IF run.raised THEN "raised" ELSE "True"

Call(mode, url, force, returned, before) ==
    [mode |-> mode, url |-> url, force |-> force, returned |-> returned, before |-> before]

InitPipeline ==
    /\ ClientInit
    /\ RetryIdle /\ SearchIdle /\ AddIdle /\ MatchIdle /\ ImportIdle
    /\ NormIdle /\ CrawlIdle /\ ReplayIdle /\ RoutesIdle /\ ProcessIdle /\ ReprocessIdle
    /\ RaisedIdle /\ BlockedIdle
    /\ pl_files \in SUBSET {get_artifact_path("https://example.com/success", artifact_type) :
                               artifact_type \in {"raw", "parsed", "spotify"}}
    /\ pl_effects = NoEffects
    /\ pl_call = <<>>
    /\ pl_prev = <<>>
    /\ pl_count = 0

\* run_import(url, force, master_playlist, settings, write_playlists)
RunImport(fails) ==
    \E url \in PipelineUrls, force \in BOOLEAN, write_playlists \in BOOLEAN,
       created \in 1..2, fail \in fails :
        /\ pl_count < MaxRuns
        /\ LET before == Run(pl_files, pl_effects, FALSE)
               skipped == import_skipped(pl_files, url, force)
               after == IF skipped THEN before
                        ELSE import_url(before, url, force, write_playlists, created, fail)
           IN  /\ pl_files' = after.files
               /\ pl_effects' = after.effects
               /\ pl_call' = Call("import", url, force, run_returned(skipped, after), before)
        /\ pl_prev' = pl_call
        /\ pl_count' = pl_count + 1
        /\ UNCHANGED pipelineFrame

\* run_dev(url, force, settings)
RunDev(fails) ==
    \E url \in PipelineUrls, force \in BOOLEAN, fail \in fails :
        /\ pl_count < MaxRuns
        /\ LET before == Run(pl_files, pl_effects, FALSE)
               skipped == dev_skipped(pl_files, url, force)
               after == IF skipped THEN before ELSE process_url(before, url, force, fail)
           IN  /\ pl_files' = after.files
               /\ pl_effects' = after.effects
               /\ pl_call' = Call("dev", url, force, run_returned(skipped, after), before)
        /\ pl_prev' = pl_call
        /\ pl_count' = pl_count + 1
        /\ UNCHANGED pipelineFrame

NextPipeline ==
    \/ RunImport(FailPoints)
    \/ RunDev(FailPoints \ {"auth", "catalog"})

SpecPipeline == InitPipeline /\ [][NextPipeline]_vars

\* The artifact the mode of a call looks for.
ArtifactOf(call) ==
    <<IF call.mode = "import" THEN "spotify" ELSE "parsed", slugify_url(call.url)>>

\* The last call did nothing: no fetch, no LLM call, no catalog call, no
\* file written, no playlist.
NoEffect == pl_effects = pl_call.before.effects /\ pl_files = pl_call.before.files

\* C30: run_import (run_dev) without force on a URL whose spotify (parsed)
\* artifact exists returns False and does nothing; so a run_import without
\* force after a completed run_import of the URL creates no playlist; with
\* force the URL is never skipped.
C30_SkipsWhatIsDone ==
    pl_call # <<>> =>
        /\ (~pl_call.force /\ ArtifactOf(pl_call) \in pl_call.before.files) =>
              pl_call.returned = "False" /\ NoEffect
        /\ pl_call.force => pl_call.returned # "False"
        /\ ( /\ pl_prev # <<>>
             /\ pl_prev.mode = pl_call.mode
             /\ pl_prev.url = pl_call.url
             /\ pl_prev.returned = "True"
             /\ ~pl_call.force ) =>
              /\ pl_call.returned = "False"
              /\ pl_effects.playlists = pl_call.before.effects.playlists
              /\ NoEffect

\* C30 witness: a run_import of a URL with no artifact completed and
\* created playlists; the run_import of the same URL after it, without
\* force, returned False and created none.
C30_Witness ==
    /\ pl_call # <<>> /\ pl_prev # <<>>
    /\ pl_prev.mode = "import" /\ pl_call.mode = "import"
    /\ pl_prev.url = pl_call.url
    /\ ArtifactOf(pl_prev) \notin pl_prev.before.files
    /\ pl_prev.returned = "True"
    /\ ~pl_call.force
    /\ pl_call.returned = "False"
    /\ pl_effects.playlists > 0
    /\ pl_effects = pl_call.before.effects

(***************************************************************************)
(* search_track when _search raises                                        *)
(***************************************************************************)

\* The step is search_track raising the exception of _search.
SearchTrackRaises == st_state = "running" /\ st_state' = "raised"

\* The step is a call of search_track.
SearchTrackCalled == calls_made' = calls_made + 1 /\ st_state' # "idle"

\* C31: when _search raises during search_track, the cache is left as it
\* was and holds no entry for the key of the call; a later call with a key
\* that has only raised so far is not answered from the cache and passes
\* the first query of the chain to _search.
C31_RaiseLeavesCache ==
    [][ /\ SearchTrackRaises =>
              /\ search_cache' = search_cache
              /\ CallKey \notin DOMAIN search_cache'
              /\ st_error' = r_error /\ st_error' # NoOutcome
        /\ ( /\ SearchTrackCalled
             /\ cache_key(st_artist', st_title') \in st_raised
             /\ cache_key(st_artist', st_title') \notin DOMAIN sequences ) =>
              /\ st_state' = "running" /\ ~st_cached'
              /\ st_queries' = <<Chars("artist:") \o st_artist' \o Chars(" track:") \o st_title'>>
              /\ r_fn' = "_search" /\ r_attempt' = 0
      ]_vars

\* C31 witness: the first call raised the exception of _search; the second
\* call, with a pair of the same key, searched again with the first query
\* and stored its match.
C31_Witness ==
    /\ calls_made = 2
    /\ st_state = "returned" /\ ~st_cached
    /\ CallKey \in st_raised
    /\ Len(st_queries) = 1
    /\ st_result # None
    /\ search_cache[CallKey] = st_result

(***************************************************************************)
(* add_tracks accounts for every URI                                       *)
(***************************************************************************)

\* Position p of the input is in failed (the URIs of the model are distinct).
InFailed(p) == \E q \in DOMAIN at_failed : at_failed[q] = at_uris[p]

\* The chunk of position p: positions 1..100 are chunk 1, and so on.
ChunkOf(p) == (p - 1) \div ChunkSize + 1

\* C32: add_tracks returns (added, failed) with added + len(failed) =
\* len(uris); every input position is either in failed or counted in added,
\* failed holds whole chunks only, and it is a subsequence of uris in input
\* order.
C32_EveryUriCounted ==
    /\ at_state = "running" => at_added + Len(at_failed) = at_i
    /\ at_state = "returned" =>
          LET positions == DOMAIN at_uris
              lost == {p \in positions : InFailed(p)}
          IN  /\ at_added + Len(at_failed) = Len(at_uris)
              /\ Len(at_failed) = Cardinality(lost)
              /\ at_added = Cardinality(positions \ lost)
              /\ \A p \in lost :
                    \A o \in positions : ChunkOf(o) = ChunkOf(p) => o \in lost
              /\ at_failed = SelectSeq(at_uris, LAMBDA u : \E q \in DOMAIN at_failed :
                                                              at_failed[q] = u)

\* C32 witness: of 250 URIs the second chunk failed: 150 were added and
\* failed holds the URIs 101 to 200.
C32_Witness ==
    /\ at_state = "returned"
    /\ Len(at_uris) = 250
    /\ at_outcomes = <<TRUE, FALSE, TRUE>>
    /\ at_added = 150
    /\ at_failed = SubSeq(at_uris, 101, 200)

(***************************************************************************)
(* _get_access_token when the refresh request fails                        *)
(***************************************************************************)

\* The step is the refresh request of thread t failing.
RefreshFails(t) == callers[t].pc = "refreshing" /\ callers'[t].pc = "raised"

\* C33: when the refresh request fails with a transport error or an error
\* status, _get_access_token raises that exception and the stored access
\* token and expiry are what they were before the call.
C33_FailedRefreshKeepsToken ==
    [][ \A t \in Threads :
            RefreshFails(t) =>
                /\ access_token' = access_token
                /\ expires_at' = expires_at
                /\ access_token' = callers[t].check[1].token
                /\ expires_at' = callers[t].check[1].expires_at
                /\ callers'[t].error \in RefreshFailures
                /\ callers'[t].result = None
      ]_vars

\* C33 witness: a thread found a stored token that had expired, its refresh
\* failed, and the client still holds that token and its expiry.
C33_Witness ==
    \E t \in Threads :
        /\ callers[t].pc = "raised"
        /\ callers[t].check[1].token # None
        /\ access_token = callers[t].check[1].token
        /\ expires_at = callers[t].check[1].expires_at
        /\ expires_at > 0
        /\ Len(refreshes) = 2

(***************************************************************************)
(* The token lock is released on every exit                                *)
(***************************************************************************)

\* The threads run on: a thread at the with statement enters when the lock
\* is free, and a refresh request ends (the HTTP client has a timeout).
TokenFairness ==
    \A t \in Threads :
        /\ WF_vars(GetAccessTokenEnter(t))
        /\ WF_vars(GetAccessTokenRefreshed(t, Payloads) \/ GetAccessTokenRaised(t, RefreshFailures))

SpecTokenFair == InitToken /\ [][NextToken]_vars /\ TokenFairness

\* The lock is held by a thread inside the with block only.
LockHeldInside ==
    /\ token_lock \in {0} \cup Threads
    /\ \A t \in Threads : token_lock = t <=> callers[t].pc = "refreshing"

\* C34: the token lock is held only by a thread that is inside
\* _get_access_token, also after a refresh that raised; every thread that
\* waits for the lock acquires it, and then returns the stored token or
\* sends its own refresh request.
C34_LockReleased ==
    /\ []LockHeldInside
    /\ \A t \in Threads :
          (callers[t].pc = "waiting") ~> (callers[t].pc \in {"returned", "refreshing", "raised"})

\* C34 witness: a thread waited for the lock while the refresh of another
\* failed; it has acquired the lock and sent its own refresh request.
C34_Witness ==
    \E t \in Threads, u \in Threads :
        /\ t # u
        /\ callers[t].pc = "raised"
        /\ u \in tl_blocked
        /\ callers[u].pc = "refreshing"
        /\ token_lock = u
        /\ Len(refreshes) = 2

(***************************************************************************)
(* run_import on a URL that may have a spotify artifact already            *)
(***************************************************************************)

\* The artifact of an earlier run_import of the URL without write_playlists
\* that found no block.
EarlierArtifact ==
    artifact_of(<<>>, [playlists |-> <<>>, failed_tracks |-> <<>>], <<>>, FALSE)

\* run_import past its skip test: data/spotify/<slug>.json is missing, or
\* it is there and force is set.
InitImportAgain ==
    /\ ClientInit /\ RetryIdle /\ SearchIdle /\ AddIdle /\ MatchIdle /\ SideIdle
    /\ parsed \in Pages
    /\ keep_unmatched = FALSE
    /\ ri_state = "mapping" /\ ri_write = FALSE
    /\ mp_block = 1 /\ mp_track = 1
    /\ mapped_blocks = <<>> /\ mapped_tracks = <<>> /\ misses = <<>>
    /\ mp_calls = <<>> /\ mp_results = <<>>
    /\ mp_error = NoOutcome /\ mp_return = None
    /\ creation = None /\ printed = None
    /\ artifact \in {None, Some(EarlierArtifact)}

SpecImportAgain == InitImportAgain /\ [][NextImport]_vars

\* is_already_imported(url): the spotify artifact exists.
AlreadyImported == artifact # None

\* The mapping and the creation step of the run have returned.
MappedAndCreated ==
    /\ mp_return # None
    /\ mp_error = NoOutcome
    /\ Len(mp_results) = Len(Flatten([b \in DOMAIN parsed |-> parsed[b].tracks]))
    /\ Len(mapped_blocks) = Len(parsed)
    /\ creation # None
    /\ ri_write =>
          Len(creation[1].playlists) =
              Cardinality({b \in DOMAIN mapped_blocks : mapped_blocks[b].tracks # <<>>})

\* C35: the spotify artifact changes only in the step of run_import that
\* follows the mapping of all tracks and the creation step; a run that
\* raises leaves the artifact, and with it is_already_imported, as it was.
C35_ArtifactWrittenLast ==
    [][ /\ artifact' # artifact =>
              /\ ri_state = "created" /\ ri_state' = "done"
              /\ MappedAndCreated
              /\ artifact'[1].blocks = mapped_blocks
        /\ ri_state' = "raised" =>
              /\ artifact' = artifact
              /\ AlreadyImported' = AlreadyImported
      ]_vars

\* C35 witness: the URL had an artifact; all tracks were mapped, the
\* creation of the playlists raised, and the artifact is the earlier one.
C35_Witness ==
    /\ ri_state = "raised"
    /\ mp_return # None
    /\ Len(mp_results) > 0
    /\ creation = None
    /\ artifact = Some(EarlierArtifact)

(***************************************************************************)
(* _best_match on a target that normalizes to nothing                      *)
(***************************************************************************)

\* C36: for a target whose artist and title both normalize to the empty
\* string, _best_match returns no candidate as an exact match.
C36_NoExactForEmptyTarget ==
    (m_applied /\ TargetArtist = <<>> /\ TargetTitle = <<>>) =>
        (m_result = 0 \/ ~ExactAt(m_result))

(***************************************************************************)
(* The search cache on pairs that contain the separator of the key         *)
(***************************************************************************)

\* A candidate that is an exact match of 'a|b' / 'c'.
ItemPipe == Item("pipe", "c", <<"a b">>)

\* Pairs with the separator in the artist or in the title, and one without.
CacheTracks == {TrackPipeLeft, TrackPipeRight, TrackAbCd}
CacheResponses == SeqsUpTo({ItemPipe, ItemExact}, MaxResponseItems)
CacheFailures == {Failure("request", "HTTPStatusError", 400)}

NextCache ==
    \/ CallSearchTrack(CacheTracks, MaxCalls)
    \/ ExecuteBody(CacheFailures, CacheResponses)
    \/ SearchReturned
    \/ SearchRaised

SpecCache == Init /\ [][NextCache]_vars

\* C37: search_track returns a cached result only if the call that stored
\* it had the same artist and the same title after lower-casing and
\* stripping.
C37_NoSharedEntry ==
    (st_state = "returned" /\ st_cached) =>
        /\ CallKey \in DOMAIN stored_by
        /\ SameFolded(stored_by[CallKey])

(***************************************************************************)
(* One uncached call of search_track                                       *)
(***************************************************************************)

\* One call of search_track on a new client, the executions of the body of
\* _search counted.
NextSearchOnce ==
    \/ CallSearchTrack(ClientTracks, 1)
    \/ ExecuteBodyCounted(AllFailures, ClientResponses)
    \/ SearchReturned
    \/ SearchRaised

\* _search has returned and search_track has not taken its items yet: the
\* states in which SearchReturned is enabled.
SearchReturnedEnabled ==
    st_state = "running" /\ r_fn = "_search" /\ r_state = "returned"

\* The call runs on: a request ends (the HTTP client has a timeout), the
\* waits between attempts are finite, and search_track goes on after
\* _search.  The weak fairness of SearchReturned is written out with its
\* enabling condition.
SearchFairness ==
    /\ WF_vars(ExecuteBodyCounted(AllFailures, ClientResponses))
    /\ WF_vars(SearchRaised)
    /\ ([]<>(~SearchReturnedEnabled) \/ []<><<SearchReturned>>_vars)

SpecSearchOnce == Init /\ [][NextSearchOnce]_vars /\ SearchFairness

\* The call has passed at most 3 queries to _search and the body of _search
\* has been executed at most 3 times for each of them, 9 times in all.
SearchBudget ==
    /\ Len(st_queries) <= 3
    /\ st_executions <= 9
    /\ st_executions <= 3 * Len(st_queries)
    /\ st_executions >= Len(st_responses)

\* C38: an uncached call of search_track passes at most 3 queries to
\* _search, executes the search request at most 9 times, and ends: it
\* returns a result or raises.
C38_SearchTerminates ==
    /\ []SearchBudget
    /\ (st_state = "running") ~> (st_state \in {"returned", "raised"})

\* C38 witness: each of the three queries failed twice with a transient
\* error and was then answered without a match; after 9 executions of the
\* search request the call returned None.
C38_Witness ==
    /\ st_state = "returned" /\ ~st_cached
    /\ Len(st_queries) = 3
    /\ st_executions = 9
    /\ st_result = None
====
